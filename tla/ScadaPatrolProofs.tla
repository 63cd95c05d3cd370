------------------------- MODULE ScadaPatrolProofs -------------------------
(***************************************************************************)
(* Proofs about ScadaPatrol for every set of places, missions and          *)
(* requests, every timeout and every bound, over all interleavings of the  *)
(* command thread and the executor.                                        *)
(***************************************************************************)
EXTENDS ScadaPatrol, TLAPS

USE DEF NotSent, Ages, ActiveStatus, EndStatus, Status, Phase, NoAdvance, Advance

\* The route and the loop count are set and cleared together (_start_patrol,
\* _stop_patrol), so a snapshot with loops left has a waypoint to go to.
RouteKept == total > 0 => Len(wps) >= 2

Typed == TypeOK /\ RouteKept

-----------------------------------------------------------------------------

\* The initial state is well typed.
LEMMA InitTyped == Init => Typed
  BY PlacesAssumption, BoundsAssumption DEF Init, Typed, TypeOK, RouteKept, Report, Reports

\* A status report made of well-typed fields is well typed.
LEMMA ReportType ==
    ASSUME TypeOK, NEW s \in Status
    PROVE  Report(s) \in Reports
  BY DEF TypeOK, Report, Reports

\* The bookkeeping of a received request is well typed.
LEMMA ReceiveType ==
    ASSUME TypeOK, NEW r, Receive(r)
    PROVE  requests' \in Nat /\ reply' = "none"
  BY DEF TypeOK, Receive

\* Every step of the command thread keeps the types.
LEMMA CmdTyped == Typed /\ (CmdStep \/ CmdReceive) => Typed'
<1> SUFFICES ASSUME Typed, CmdStep \/ CmdReceive PROVE Typed'
  OBVIOUS
<1> USE DEF Typed, TypeOK, RouteKept, mission, cmd, tick, bounds
<1>1. CASE RefuseStart
  BY <1>1 DEF RefuseStart, Receive
<1>2. ASSUME NEW m \in Missions, AcceptStart(m) PROVE Typed'
  BY <1>2, MissionsAssumption DEF AcceptStart, Receive
<1>3. CASE ReceiveStop
  BY <1>3 DEF ReceiveStop, Receive
<1>4. ASSUME NEW p \in Places \cup {NoPlace}, ReceiveNavGoal(p) PROVE Typed'
  BY <1>4 DEF ReceiveNavGoal, Receive
<1>5. CASE StartSet
  <2>1. Report("starting") \in Reports
    BY ReportType
  <2> QED BY <1>5, <2>1 DEF StartSet, SetPatrolState
<1>6. CASE CmdPublish
  BY <1>6 DEF CmdPublish, PublishGoal
<1>7. CASE StartRecord
  BY <1>7, BoundsAssumption DEF StartRecord, RecordGoal
<1>8. CASE CmdStopClear
  BY <1>8, BoundsAssumption DEF CmdStopClear, ClearMission
<1>9. CASE CmdStopSet
  <2>1. Report(stopC) \in Reports
    BY ReportType
  <2> QED BY <1>9, <2>1 DEF CmdStopSet, SetPatrolState
<1>10. CASE Reply
  BY <1>10 DEF Reply
<1> QED
  BY <1>1, <1>2, <1>3, <1>4, <1>5, <1>6, <1>7, <1>8, <1>9, <1>10 DEF CmdStep, CmdReceive

\* What _advance_patrol_goal reads from its snapshot is always a place: no
\* index is out of range, whatever the command thread did in between.
LEMMA AdvanceTyped == Typed /\ TickAdvance => Typed'
<1> SUFFICES ASSUME Typed, TickAdvance PROVE Typed'
  OBVIOUS
<1> USE DEF Typed, TypeOK, RouteKept, TickAdvance, LoopsLeft, GoTo, EndWith,
           mission, cmd, tick, bounds
<1>0. Len(wps) \in Nat /\ \A i \in 1 .. Len(wps) : wps[i] \in Places
  OBVIOUS
<1>1. CASE phase = "go_home_start"
  BY <1>0, <1>1, BoundsAssumption
<1>2. CASE phase = "patrol"
  <2>1. CASE idx < Len(wps) - 1
    <3>1. wps[idx + 2] \in Places /\ idx + 1 \in Nat
      BY <1>0, <2>1
    <3> QED BY <1>2, <2>1, <3>1, BoundsAssumption
  <2>2. CASE idx >= Len(wps) - 1 /\ loop < total
    <3>1. wps[1] \in Places /\ loop + 1 \in Nat
      BY <1>0, <2>2
    <3> QED BY <1>2, <2>2, <3>1, BoundsAssumption
  <2>3. CASE idx >= Len(wps) - 1 /\ loop >= total
    BY <1>2, <2>3, BoundsAssumption
  <2> QED BY <1>0, <2>1, <2>2, <2>3
<1>3. CASE phase = "return_home_end"
  BY <1>3, BoundsAssumption
<1>4. CASE phase = "idle"
  BY <1>4, BoundsAssumption
<1> QED BY <1>1, <1>2, <1>3, <1>4

\* Every step of patrol_tick keeps the types.
LEMMA TickTyped == Typed /\ TickStep => Typed'
<1> SUFFICES ASSUME Typed, TickStep PROVE Typed'
  OBVIOUS
<1> USE DEF Typed, TypeOK, RouteKept, mission, cmd, tick, bounds
<1>1. CASE TickActive
  BY <1>1 DEF TickActive
<1>2. CASE TickReadSent
  BY <1>2 DEF TickReadSent
<1>3. CASE TickDistance
  BY <1>3 DEF TickDistance
<1>4. CASE TickTimeout
  BY <1>4, BoundsAssumption DEF TickTimeout, TickIdle, Overdue
<1>5. CASE TickAdvance
  BY <1>5, AdvanceTyped
<1>6. CASE WriteFirst
  BY <1>6 DEF WriteFirst, TickWrite
<1>7. CASE WriteIdx
  BY <1>7 DEF WriteIdx, TickWrite
<1>8. CASE WriteLoop
  BY <1>8 DEF WriteLoop, TickWrite
<1>9. CASE WriteReturn
  BY <1>9 DEF WriteReturn, TickWrite
<1>10. CASE TickSet
  <2>1. adv.status \in Status
    OBVIOUS
  <2>2. Report(adv.status) \in Reports
    BY <2>1, ReportType
  <2> QED BY <1>10, <2>1, <2>2 DEF TickSet, SetPatrolState
<1>11. CASE TickPublish
  BY <1>11 DEF TickPublish, PublishGoal
<1>12. CASE TickRecord
  BY <1>12, BoundsAssumption DEF TickRecord, RecordGoal, TickIdle
<1>13. CASE TickStopClear
  BY <1>13, BoundsAssumption DEF TickStopClear, ClearMission
<1>14. CASE TickStopSet
  <2>1. Report(stopX) \in Reports
    BY ReportType
  <2> QED BY <1>14, <2>1, BoundsAssumption DEF TickStopSet, SetPatrolState, TickIdle
<1> QED
  BY <1>1, <1>2, <1>3, <1>4, <1>5, <1>6, <1>7, <1>8, <1>9, <1>10, <1>11, <1>12,
     <1>13, <1>14 DEF TickStep

\* The clock and the localisation keep the types.
LEMMA EnvTyped == Typed /\ (Time \/ \E p \in Places : UpdateMapPose(p)) => Typed'
<1> SUFFICES ASSUME Typed, Time \/ \E p \in Places : UpdateMapPose(p) PROVE Typed'
  OBVIOUS
<1> USE DEF Typed, TypeOK, RouteKept, mission, cmd, tick, bounds
<1>1. CASE Time
  <2>1. \A a \in Ages : Older(a) \in Ages
    BY BoundsAssumption DEF Older
  <2> QED BY <1>1, <2>1 DEF Time
<1>2. ASSUME NEW p \in Places, UpdateMapPose(p) PROVE Typed'
  BY <1>2 DEF UpdateMapPose
<1> QED BY <1>1, <1>2

\* Every variable of the bridge's patrol keeps its type in every behaviour, so
\* no tick indexes a waypoint that is not there (_advance_patrol_goal).
THEOREM TypeCorrect == Spec => []TypeOK
<1>1. Typed /\ UNCHANGED vars => Typed'
  BY DEF Typed, TypeOK, RouteKept, vars, mission, cmd, tick, bounds
<1>2. Typed /\ [Next]_vars => Typed'
  BY <1>1, CmdTyped, TickTyped, EnvTyped DEF Next
<1>3. Spec => []Typed
  BY InitTyped, <1>2, PTL DEF Spec
<1> QED BY <1>3, PTL DEF Typed

-----------------------------------------------------------------------------

\* A step of the command thread keeps the watchdog armed.
LEMMA CmdArmed == TypeOK /\ WatchdogArmed /\ (CmdStep \/ CmdReceive) => WatchdogArmed'
<1> SUFFICES ASSUME TypeOK, WatchdogArmed, CmdStep \/ CmdReceive PROVE WatchdogArmed'
  OBVIOUS
<1> USE DEF WatchdogArmed, TypeOK, Active, mission, cmd, tick, bounds
<1>1. CASE RefuseStart
  BY <1>1 DEF RefuseStart, Receive
<1>2. ASSUME NEW m \in Missions, AcceptStart(m) PROVE WatchdogArmed'
  BY <1>2 DEF AcceptStart, Receive
<1>3. CASE ReceiveStop
  BY <1>3 DEF ReceiveStop, Receive
<1>4. ASSUME NEW p \in Places \cup {NoPlace}, ReceiveNavGoal(p) PROVE WatchdogArmed'
  BY <1>4 DEF ReceiveNavGoal, Receive
<1>5. CASE StartSet
  BY <1>5 DEF StartSet, SetPatrolState
<1>6. CASE CmdPublish
  BY <1>6 DEF CmdPublish, PublishGoal
<1>7. CASE StartRecord
  BY <1>7 DEF StartRecord, RecordGoal
<1>8. CASE CmdStopClear
  BY <1>8 DEF CmdStopClear, ClearMission
<1>9. CASE CmdStopSet
  BY <1>9 DEF CmdStopSet, SetPatrolState
<1>10. CASE Reply
  BY <1>10 DEF Reply
<1> QED
  BY <1>1, <1>2, <1>3, <1>4, <1>5, <1>6, <1>7, <1>8, <1>9, <1>10 DEF CmdStep, CmdReceive

\* A step of patrol_tick keeps the watchdog armed.
LEMMA TickArmed == TypeOK /\ WatchdogArmed /\ TickStep => WatchdogArmed'
<1> SUFFICES ASSUME TypeOK, WatchdogArmed, TickStep PROVE WatchdogArmed'
  OBVIOUS
<1> USE BoundsAssumption DEF WatchdogArmed, TypeOK, Active, mission, cmd, tick, bounds
<1>1. CASE TickActive
  BY <1>1 DEF TickActive
<1>2. CASE TickReadSent
  BY <1>2 DEF TickReadSent
<1>3. CASE TickDistance
  BY <1>3 DEF TickDistance
<1>4. CASE TickTimeout
  BY <1>4 DEF TickTimeout, TickIdle, Overdue
<1>5. CASE TickAdvance
  BY <1>5 DEF TickAdvance, GoTo, EndWith, LoopsLeft
<1>6. CASE WriteFirst
  BY <1>6 DEF WriteFirst, TickWrite
<1>7. CASE WriteIdx
  BY <1>7 DEF WriteIdx, TickWrite
<1>8. CASE WriteLoop
  BY <1>8 DEF WriteLoop, TickWrite
<1>9. CASE WriteReturn
  BY <1>9 DEF WriteReturn, TickWrite
<1>10. CASE TickSet
  BY <1>10 DEF TickSet, SetPatrolState
<1>11. CASE TickPublish
  BY <1>11 DEF TickPublish, PublishGoal
<1>12. CASE TickRecord
  BY <1>12 DEF TickRecord, RecordGoal, TickIdle
<1>13. CASE TickStopClear
  BY <1>13 DEF TickStopClear, ClearMission
<1>14. CASE TickStopSet
  BY <1>14 DEF TickStopSet, SetPatrolState, TickIdle
<1> QED
  BY <1>1, <1>2, <1>3, <1>4, <1>5, <1>6, <1>7,
     <1>8, <1>9, <1>10, <1>11, <1>12, <1>13, <1>14 DEF TickStep

\* Time and localisation keep the watchdog armed: ages only grow.
LEMMA EnvArmed ==
    TypeOK /\ WatchdogArmed /\ (Time \/ \E p \in Places : UpdateMapPose(p)) => WatchdogArmed'
  BY BoundsAssumption
  DEF WatchdogArmed, TypeOK, Active, Time, Older, UpdateMapPose, mission, cmd, tick, bounds

\* In every interleaving of commands and ticks an active patrol has a running
\* timeout, or a thread is about to start one or to end the patrol.
THEOREM WatchdogAlwaysArmed == Spec => []WatchdogArmed
<1>1. Init => WatchdogArmed
  BY DEF Init, WatchdogArmed, Active
<1>2. WatchdogArmed /\ UNCHANGED vars => WatchdogArmed'
  BY DEF WatchdogArmed, Active, vars, mission, cmd, tick
<1>3. TypeOK /\ WatchdogArmed /\ [Next]_vars => WatchdogArmed'
  BY <1>2, CmdArmed, TickArmed, EnvArmed DEF Next
<1> QED BY <1>1, <1>3, TypeCorrect, PTL DEF Spec

-----------------------------------------------------------------------------

\* A step of the command thread either sets the status last or is about to.
LEMMA CmdReports ==
    TypeOK /\ TelemetryAgrees /\ (CmdStep \/ CmdReceive) => TelemetryAgrees'
<1> SUFFICES ASSUME TypeOK, TelemetryAgrees, CmdStep \/ CmdReceive PROVE TelemetryAgrees'
  OBVIOUS
<1> USE DEF TelemetryAgrees, TypeOK, Report, mission, cmd, tick, bounds
<1>1. CASE RefuseStart
  BY <1>1 DEF RefuseStart, Receive
<1>2. ASSUME NEW m \in Missions, AcceptStart(m) PROVE TelemetryAgrees'
  BY <1>2 DEF AcceptStart, Receive
<1>3. CASE ReceiveStop
  BY <1>3 DEF ReceiveStop, Receive
<1>4. ASSUME NEW p \in Places \cup {NoPlace}, ReceiveNavGoal(p) PROVE TelemetryAgrees'
  BY <1>4 DEF ReceiveNavGoal, Receive
<1>5. CASE StartSet
  BY <1>5 DEF StartSet, SetPatrolState
<1>6. CASE CmdPublish
  BY <1>6 DEF CmdPublish, PublishGoal
<1>7. CASE StartRecord
  BY <1>7 DEF StartRecord, RecordGoal
<1>8. CASE CmdStopClear
  BY <1>8 DEF CmdStopClear, ClearMission
<1>9. CASE CmdStopSet
  BY <1>9 DEF CmdStopSet, SetPatrolState
<1>10. CASE Reply
  BY <1>10 DEF Reply
<1> QED
  BY <1>1, <1>2, <1>3, <1>4, <1>5, <1>6, <1>7, <1>8, <1>9, <1>10 DEF CmdStep, CmdReceive

\* A report is known from its fields.
LEMMA ReportFields ==
    ASSUME NEW t \in Reports, NEW s, NEW l, NEW i, NEW n, NEW c, NEW g,
           t.status = s, t.loop = l, t.idx = i, t.total = n, t.count = c
    PROVE  [t EXCEPT !.last = g] = [status |-> s, loop |-> l, idx |-> i,
                                    total |-> n, count |-> c, last |-> g]
  BY DEF Reports

\* So does a step of patrol_tick.
LEMMA TickReports == TypeOK /\ TelemetryAgrees /\ TickStep => TelemetryAgrees'
<1> SUFFICES ASSUME TypeOK, TelemetryAgrees, TickStep PROVE TelemetryAgrees'
  OBVIOUS
<1> USE BoundsAssumption DEF TelemetryAgrees, TypeOK, Report, mission, cmd, tick, bounds
<1>1. CASE TickActive
  BY <1>1 DEF TickActive
<1>2. CASE TickReadSent
  BY <1>2 DEF TickReadSent
<1>3. CASE TickDistance
  BY <1>3 DEF TickDistance
<1>4. CASE TickTimeout
  BY <1>4 DEF TickTimeout, TickIdle, Overdue
<1>5. CASE TickAdvance
  BY <1>5 DEF TickAdvance, GoTo, EndWith, LoopsLeft
<1>6. CASE WriteFirst
  BY <1>6 DEF WriteFirst, TickWrite
<1>7. CASE WriteIdx
  BY <1>7 DEF WriteIdx, TickWrite
<1>8. CASE WriteLoop
  BY <1>8 DEF WriteLoop, TickWrite
<1>9. CASE WriteReturn
  BY <1>9 DEF WriteReturn, TickWrite
<1>10. CASE TickSet
  BY <1>10 DEF TickSet, SetPatrolState
<1>11. CASE TickPublish
  BY <1>11 DEF TickPublish, PublishGoal
<1>12. CASE TickRecord
  <2>1. /\ pcX = "record" /\ pcC' = pcC
        /\ UNCHANGED <<status, loop, idx, total, wps, tele>>
    BY <1>12 DEF TickRecord, RecordGoal
  <2>2. CASE [tele EXCEPT !.last = lastGoal] = Report(status)
    <3>1. /\ tele.status = status /\ tele.loop = loop /\ tele.idx = idx
          /\ tele.total = total /\ tele.count = Len(wps)
      BY <2>2 DEF Reports
    <3>2. tele \in Reports
      OBVIOUS
    <3>3. [tele EXCEPT !.last = lastGoal']
            = [status |-> status, loop |-> loop, idx |-> idx,
               total |-> total, count |-> Len(wps), last |-> lastGoal']
      BY ONLY <3>1, <3>2, ReportFields
    <3>4. tele' = tele /\ Report(status)' = [status |-> status, loop |-> loop, idx |-> idx,
                                            total |-> total, count |-> Len(wps), last |-> lastGoal']
      BY <2>1
    <3> QED BY ONLY <3>3, <3>4 DEF TelemetryAgrees
  <2>3. CASE pcC \in {"start_set", "stop_set"}
    BY <2>1, <2>3
  <2> QED BY <2>1, <2>2, <2>3
<1>13. CASE TickStopClear
  BY <1>13 DEF TickStopClear, ClearMission
<1>14. CASE TickStopSet
  BY <1>14 DEF TickStopSet, SetPatrolState, TickIdle
<1> QED
  BY <1>1, <1>2, <1>3, <1>4, <1>5, <1>6, <1>7,
     <1>8, <1>9, <1>10, <1>11, <1>12, <1>13, <1>14 DEF TickStep

\* What publish_telemetry sends agrees with the mission's fields, last_goal apart,
\* whenever no thread is between writing them and _set_patrol_state.
THEOREM TelemetryAlwaysAgrees == Spec => []TelemetryAgrees
<1>1. Init => TelemetryAgrees
  BY DEF Init, TelemetryAgrees, Report
<1>2. TelemetryAgrees /\ UNCHANGED vars => TelemetryAgrees'
  BY DEF TelemetryAgrees, Report, vars, mission, cmd, tick
<1>3. TelemetryAgrees /\ (Time \/ \E p \in Places : UpdateMapPose(p)) => TelemetryAgrees'
  BY DEF TelemetryAgrees, Report, Time, UpdateMapPose, mission, cmd, tick
<1>4. TypeOK /\ TelemetryAgrees /\ [Next]_vars => TelemetryAgrees'
  BY <1>2, <1>3, CmdReports, TickReports DEF Next
<1> QED BY <1>1, <1>4, TypeCorrect, PTL DEF Spec

-----------------------------------------------------------------------------
(* What an answered stop leaves to a tick that was under way.              *)

\* What a tick may write after _stop_patrol has cleared the mission leaves it without
\* a route and without loops; only the next patrol_start sets them again.
Cleared == wps = <<>> /\ total = 0 /\ phase # "go_home_start"

\* A mission that has failed or was completed keeps its fields only if the tick that
\* ended it is over (_start_patrol while _stop_patrol is between its blocks).
Stopping ==
    /\ pcC = "stop_set" => Cleared
    /\ ~Active => Cleared \/ pcX = "idle" \/ pcC = "start_set"
    /\ reply = "stopped" \/ (pcC = "reply" /\ answer = "stopped")
           => Cleared \/ (~Active /\ pcX = "idle")
    /\ pcC = "start_set" => reply = "none"
    /\ pcC \in {"publish", "record"} => answer \in {"started", "goal_sent"}
    /\ pcX \in {"write_first", "write_idx", "write_loop", "write_return", "set"}
           => adv.status \in ActiveStatus

\* The command thread clears the mission before it sets the status.
LEMMA CmdStopping == TypeOK /\ Stopping /\ (CmdStep \/ CmdReceive) => Stopping'
<1> SUFFICES ASSUME TypeOK, Stopping, CmdStep \/ CmdReceive PROVE Stopping'
  OBVIOUS
<1> USE DEF Stopping, Cleared, Active, TypeOK, mission, cmd, tick, bounds
<1>1. CASE RefuseStart
  BY <1>1 DEF RefuseStart, Receive
<1>2. ASSUME NEW m \in Missions, AcceptStart(m) PROVE Stopping'
  BY <1>2 DEF AcceptStart, Receive
<1>3. CASE ReceiveStop
  BY <1>3 DEF ReceiveStop, Receive
<1>4. ASSUME NEW p \in Places \cup {NoPlace}, ReceiveNavGoal(p) PROVE Stopping'
  BY <1>4 DEF ReceiveNavGoal, Receive
<1>5. CASE StartSet
  BY <1>5 DEF StartSet, SetPatrolState
<1>6. CASE CmdPublish
  BY <1>6 DEF CmdPublish, PublishGoal
<1>7. CASE StartRecord
  BY <1>7 DEF StartRecord, RecordGoal
<1>8. CASE CmdStopClear
  BY <1>8 DEF CmdStopClear, ClearMission
<1>9. CASE CmdStopSet
  BY <1>9 DEF CmdStopSet, SetPatrolState
<1>10. CASE Reply
  BY <1>10 DEF Reply
<1> QED
  BY <1>1, <1>2, <1>3, <1>4, <1>5, <1>6, <1>7, <1>8, <1>9, <1>10 DEF CmdStep, CmdReceive

\* A tick goes on only for an active patrol, and gives no route back.
LEMMA TickStopping == TypeOK /\ Stopping /\ TickStep => Stopping'
<1> SUFFICES ASSUME TypeOK, Stopping, TickStep PROVE Stopping'
  OBVIOUS
<1> USE DEF Stopping, Cleared, Active, TypeOK, mission, cmd, tick, bounds
<1>1. CASE TickActive
  BY <1>1 DEF TickActive
<1>2. CASE TickReadSent \/ TickDistance
  BY <1>2 DEF TickReadSent, TickDistance
<1>3. CASE TickTimeout
  BY <1>3 DEF TickTimeout, TickIdle
<1>4. CASE TickAdvance
  BY <1>4 DEF TickAdvance, GoTo, EndWith
<1>5. CASE WriteFirst \/ WriteIdx \/ WriteLoop \/ WriteReturn
  BY <1>5 DEF WriteFirst, WriteIdx, WriteLoop, WriteReturn, TickWrite
<1>6. CASE TickSet
  BY <1>6 DEF TickSet, SetPatrolState
<1>7. CASE TickPublish
  BY <1>7 DEF TickPublish, PublishGoal
<1>8. CASE TickRecord
  BY <1>8 DEF TickRecord, RecordGoal, TickIdle
<1>9. CASE TickStopClear
  BY <1>9 DEF TickStopClear, ClearMission
<1>10. CASE TickStopSet
  BY <1>10 DEF TickStopSet, SetPatrolState, TickIdle
<1> QED
  BY <1>1, <1>2, <1>3, <1>4, <1>5, <1>6, <1>7, <1>8, <1>9, <1>10 DEF TickStep

\* For every route, number of loops and interleaving: once a stop has been answered the
\* tick that undoes it has no waypoint left to decide on (_stop_patrol,
\* _advance_patrol_goal).
THEOREM StopEndsTheRoute == Spec => NoWaypointAfterStop
<1>1. Init => Stopping
  BY DEF Init, Stopping, Cleared, Active
<1>2. Stopping /\ (UNCHANGED vars \/ Time \/ \E p \in Places : UpdateMapPose(p)) => Stopping'
  BY DEF Stopping, Cleared, Active, Time, UpdateMapPose, vars, mission, cmd, tick
<1>3. TypeOK /\ Stopping /\ [Next]_vars => Stopping'
  BY <1>2, CmdStopping, TickStopping DEF Next
<1>4. TypeOK /\ Stopping /\ [Next]_vars =>
        (reply = "stopped" /\ pcX = "advance"
           => pcX' \notin {"write_first", "write_idx", "write_loop"})
  <2> SUFFICES ASSUME TypeOK, Stopping, [Next]_vars, reply = "stopped", pcX = "advance"
               PROVE  pcX' \notin {"write_first", "write_idx", "write_loop"}
    OBVIOUS
  <2>1. Cleared /\ idx \in Nat \cup {-1} /\ loop \in Nat
    BY DEF Stopping, TypeOK
  <2>2. CASE TickAdvance
    BY <2>1, <2>2 DEF Cleared, TickAdvance, GoTo, EndWith, LoopsLeft
  <2>3. CASE pcX' = pcX
    BY <2>3
  <2>4. TickAdvance \/ pcX' = pcX
    BY DEF Next, CmdStep, CmdReceive, TickStep, vars, tick, Time, UpdateMapPose,
           StartSet, CmdPublish, StartRecord, CmdStopClear, CmdStopSet, Reply, RefuseStart,
           ReceiveStop, AcceptStart, ReceiveNavGoal, Receive, TickActive, TickReadSent,
           TickDistance, TickTimeout, WriteFirst, WriteIdx, WriteLoop, WriteReturn, TickWrite,
           TickSet, TickPublish, TickRecord, TickStopClear, TickStopSet
  <2> QED BY <2>2, <2>3, <2>4
<1> QED BY <1>1, <1>3, <1>4, TypeCorrect, PTL DEF Spec, NoWaypointAfterStop

-----------------------------------------------------------------------------
(* Missions that nobody interrupts: the operator only starts patrols.      *)

StartsOnly == Requests \subseteq {"patrol_start"}

\* The mission's fields name an accepted payload, and the tick stands inside
\* the route when it writes a loop or an index (_start_patrol,
\* _advance_patrol_goal).
OnRoute ==
    /\ phase # "idle" => missionBar \in Missions
    /\ phase = "patrol" => loop \in 1 .. total /\ idx \in 0 .. Len(wps) - 1
    /\ pcX = "write_first" => phase = "go_home_start"
    /\ pcX = "write_idx" => phase = "patrol" /\ idx < Len(wps) - 1 /\ adv.idx = idx + 1
    /\ pcX = "write_loop" =>
           phase = "patrol" /\ idx = Len(wps) - 1 /\ loop < total /\ adv.loop = loop + 1
    /\ pcX = "write_return" => phase = "patrol" /\ idx = Len(wps) - 1 /\ loop = total

Advancing == {"write_first", "write_idx", "write_loop", "write_return",
              "set", "publish", "record"}

\* Where the two threads stand while a mission begins, lasts and ends.  In
\* particular a tick is under way only while the patrol is active, so that no
\* mission begins in the middle of one.
Turns ==
    /\ pcC \in {"recv", "start_set", "publish", "record", "reply"}
    /\ pcC = "start_set" => phase = "go_home_start" /\ ~Active
    /\ pcC \in {"publish", "record"} => answer = "started"
    /\ pcX # "idle" => Active
    /\ pcX = "stop_set" => phase = "idle" /\ stopX \in {"completed", "failed"}
    /\ pcX = "stop_clear" => stopX \in {"completed", "failed"}
    /\ pcX \in Advancing => adv # NoAdvance
    /\ Active => phase # "idle" \/ pcX = "stop_set"
    /\ phase # "idle" => Active \/ pcC = "start_set"

Begun == OnRoute /\ Turns

\* A step of the command thread keeps the mission on its route: it can only start
\* one, and only when no tick is under way.
LEMMA CmdBegun ==
    ASSUME StartsOnly
    PROVE  Typed /\ Begun /\ (CmdStep \/ CmdReceive) => Begun'
<1> SUFFICES ASSUME Typed, Begun, CmdStep \/ CmdReceive PROVE Begun'
  OBVIOUS
<1> USE DEF Typed, TypeOK, Begun, OnRoute, Turns, Advancing, Active, missionBar,
           mission, cmd, tick, bounds
<1>0. ~ReceiveStop /\ \A p \in Places \cup {NoPlace} : ~ReceiveNavGoal(p)
  BY StartsOnly DEF StartsOnly, ReceiveStop, ReceiveNavGoal, Receive
<1>1. CASE RefuseStart
  BY <1>1 DEF RefuseStart, Receive
<1>2. ASSUME NEW m \in Missions, AcceptStart(m) PROVE Begun'
  BY <1>2, MissionsAssumption DEF AcceptStart, Receive
<1>3. CASE StartSet
  BY <1>3 DEF StartSet, SetPatrolState
<1>4. CASE CmdPublish
  BY <1>4 DEF CmdPublish, PublishGoal
<1>5. CASE StartRecord
  BY <1>5 DEF StartRecord, RecordGoal
<1>6. CASE CmdStopClear
  BY <1>6 DEF CmdStopClear, ClearMission
<1>7. CASE CmdStopSet
  BY <1>7 DEF CmdStopSet, SetPatrolState
<1>8. CASE Reply
  BY <1>8 DEF Reply
<1> QED
  BY <1>0, <1>1, <1>2, <1>3, <1>4, <1>5, <1>6, <1>7, <1>8 DEF CmdStep, CmdReceive

\* A step of patrol_tick keeps the mission on its route.
LEMMA TickBegun ==
    Typed /\ Begun /\ TickStep => Begun'
<1> SUFFICES ASSUME Typed, Begun, TickStep PROVE Begun'
  OBVIOUS
<1> USE DEF Typed, TypeOK, Begun, OnRoute, Turns, Advancing, Active, missionBar,
           mission, cmd, tick, bounds
<1>1. CASE TickActive
  BY <1>1 DEF TickActive
<1>2. CASE TickReadSent
  BY <1>2 DEF TickReadSent
<1>3. CASE TickDistance
  BY <1>3 DEF TickDistance
<1>4. CASE TickTimeout
  BY <1>4 DEF TickTimeout, TickIdle, Overdue
<1>5. CASE TickAdvance
  <2> USE <1>5 DEF TickAdvance, GoTo, EndWith, LoopsLeft
  <2>0. \A i \in 1 .. Len(wps) : wps[i] # NoPlace
    BY PlacesAssumption
  <2>1. CASE phase = "go_home_start"
    <3>1. missionBar.route = wps /\ Len(wps) >= 2
      BY <2>1, MissionsAssumption
    <3> QED BY <2>0, <2>1, <3>1
  <2>2. CASE phase = "patrol" /\ idx < Len(wps) - 1
    BY <2>0, <2>2
  <2>3. CASE phase = "patrol" /\ idx >= Len(wps) - 1 /\ loop < total
    BY <2>0, <2>3
  <2>4. CASE phase = "patrol" /\ idx >= Len(wps) - 1 /\ loop >= total
    BY <2>4
  <2>5. CASE phase \in {"return_home_end", "idle"}
    BY <2>5
  <2> QED BY <2>1, <2>2, <2>3, <2>4, <2>5
<1>6. CASE WriteFirst
  <2>1. missionBar.route = wps /\ missionBar.loops = total /\ missionBar \in Missions
    BY <1>6 DEF WriteFirst, TickWrite
  <2>2. Len(wps) >= 2 /\ total >= 1
    BY <2>1, MissionsAssumption
  <2> QED BY <1>6, <2>2 DEF WriteFirst, TickWrite
<1>7. CASE WriteIdx
  BY <1>7 DEF WriteIdx, TickWrite
<1>8. CASE WriteLoop
  BY <1>8 DEF WriteLoop, TickWrite
<1>9. CASE WriteReturn
  BY <1>9 DEF WriteReturn, TickWrite
<1>10. CASE TickSet
  BY <1>10 DEF TickSet, SetPatrolState
<1>11. CASE TickPublish
  BY <1>11 DEF TickPublish, PublishGoal
<1>12. CASE TickRecord
  BY <1>12 DEF TickRecord, RecordGoal, TickIdle
<1>13. CASE TickStopClear
  BY <1>13 DEF TickStopClear, ClearMission
<1>14. CASE TickStopSet
  BY <1>14 DEF TickStopSet, SetPatrolState, TickIdle
<1> QED
  BY <1>1, <1>2, <1>3, <1>4, <1>5, <1>6, <1>7,
     <1>8, <1>9, <1>10, <1>11, <1>12, <1>13, <1>14 DEF TickStep

\* Missions the operator only starts stay on their routes.
LEMMA AlwaysBegun ==
    ASSUME StartsOnly
    PROVE  Spec => [](Typed /\ Begun)
<1>1. Init => Typed /\ Begun
  BY InitTyped DEF Init, Begun, OnRoute, Turns, Advancing, Active
<1>2. Typed /\ Begun /\ (Time \/ \E p \in Places : UpdateMapPose(p)) => Begun'
  BY DEF Begun, OnRoute, Turns, Advancing, Active, missionBar, Time, UpdateMapPose,
         mission, cmd, tick, bounds
<1>3. Typed /\ Begun /\ UNCHANGED vars => Typed' /\ Begun'
  BY DEF Typed, TypeOK, RouteKept, Begun, OnRoute, Turns, Advancing, Active, missionBar,
         vars, mission, cmd, tick, bounds
<1>4. Typed /\ Begun /\ [Next]_vars => Typed' /\ Begun'
  BY <1>2, <1>3, CmdTyped, TickTyped, EnvTyped, CmdBegun, TickBegun DEF Next
<1> QED BY <1>1, <1>4, PTL DEF Spec

\* When the operator only starts missions, at any time and however often, the
\* mission's status, phase, loop and index belong together: _advance_patrol_goal
\* always finds a waypoint, and a mission is under way exactly when its status
\* says so.
THEOREM MissionAlwaysKept ==
    ASSUME StartsOnly
    PROVE  Spec => []MissionKept
<1>1. Typed /\ Begun => MissionKept
  <2> SUFFICES ASSUME Typed, Begun PROVE MissionKept
    OBVIOUS
  <2>1. ASSUME phase # "idle" PROVE Len(wps) >= 2 /\ home \in Places
    BY <2>1, MissionsAssumption DEF Begun, OnRoute, missionBar
  <2> QED BY <2>1 DEF Begun, OnRoute, Turns, MissionKept, AtRest
<1> QED BY <1>1, AlwaysBegun, PTL

-----------------------------------------------------------------------------
\* One mission: what the robot was told, and when.

Single == StartsOnly /\ MaxRuns <= 1

Starting == pcC \in {"start_set", "publish", "record"}

\* Where the phase, the loop and the index say the robot should be.
Target == IF phase = "patrol" THEN wps[idx + 1] ELSE home

\* The goal published, recorded and timed is the target, unless a thread
\* stands between a write and the end of _publish_goal.
Told ==
    /\ runs \in {0, 1}
    /\ runs = 0 => phase = "idle" /\ ~Starting /\ goalTopic = NoPlace /\ lastGoal = NoPlace
                   /\ age = NotSent /\ seenAge = NotSent /\ ~Active
    /\ Starting =>
           /\ phase = "go_home_start" /\ goalC = home
           /\ lastGoal = NoPlace /\ age = NotSent /\ seenAge = NotSent
           /\ pcX \in {"idle", "read_sent", "distance", "timeout"}
    /\ pcC = "record" => goalTopic = home
    /\ phase # "idle" /\ ~Starting =>
           IF pcX \in {"set", "publish", "record"}
           THEN phase # "go_home_start" /\ adv.to = Target /\ (pcX = "record" => goalTopic = Target)
           ELSE lastGoal = Target /\ goalTopic = Target
    /\ pcX = "write_first" => adv.to = wps[1]
    /\ pcX = "write_idx" => adv.to = wps[idx + 2]
    /\ pcX = "write_loop" => adv.to = wps[1]
    /\ pcX = "write_return" => adv.to = home

\* The robot was seen at the target when the tick decided to go on.
Seen ==
    /\ pcX \in {"advance", "write_first", "write_idx", "write_loop", "write_return"} =>
           phase # "idle" /\ pose = Target
    /\ pcX = "stop_clear" /\ stopX = "completed" => phase = "return_home_end" /\ pose = Target

Alone == Told /\ Seen

\* A step of the command thread keeps what the robot was told in agreement with the
\* mission: the first goal is published and recorded after the mission began.
LEMMA CmdAlone ==
    ASSUME Single
    PROVE  Typed /\ Begun /\ Alone /\ (CmdStep \/ CmdReceive) => Alone'
<1> SUFFICES ASSUME Typed, Begun, Alone, CmdStep \/ CmdReceive PROVE Alone'
  OBVIOUS
<1> USE DEF Single, Typed, TypeOK, Begun, OnRoute, Turns, Advancing, Active, Alone, Told,
           Seen, Starting, Target, missionBar, mission, cmd, tick, bounds
<1>0. ~ReceiveStop /\ \A p \in Places \cup {NoPlace} : ~ReceiveNavGoal(p)
  BY Single DEF StartsOnly, ReceiveStop, ReceiveNavGoal, Receive
<1>1. CASE RefuseStart
  BY <1>1 DEF RefuseStart, Receive
<1>2. ASSUME NEW m \in Missions, AcceptStart(m) PROVE Alone'
  BY <1>2, Single, BoundsAssumption DEF AcceptStart, Receive
<1>3. CASE StartSet
  BY <1>3 DEF StartSet, SetPatrolState
<1>4. CASE CmdPublish
  BY <1>4 DEF CmdPublish, PublishGoal
<1>5. CASE StartRecord
  BY <1>5 DEF StartRecord, RecordGoal
<1>6. CASE CmdStopClear
  BY <1>6 DEF CmdStopClear, ClearMission
<1>7. CASE CmdStopSet
  BY <1>7 DEF CmdStopSet, SetPatrolState
<1>8. CASE Reply
  BY <1>8 DEF Reply
<1> QED
  BY <1>0, <1>1, <1>2, <1>3, <1>4, <1>5, <1>6, <1>7, <1>8 DEF CmdStep, CmdReceive

\* A step of patrol_tick keeps what the robot was told in agreement with the mission.
LEMMA TickAlone ==
    ASSUME Single
    PROVE  Typed /\ Begun /\ Alone /\ TickStep => Alone'
<1> SUFFICES ASSUME Typed, Begun, Alone, TickStep PROVE Alone'
  OBVIOUS
<1> USE DEF Single, Typed, TypeOK, Begun, OnRoute, Turns, Advancing, Active, Alone, Told,
           Seen, Starting, Target, missionBar, mission, cmd, tick, bounds
<1>1. CASE TickActive
  BY <1>1 DEF TickActive
<1>2. CASE TickReadSent
  BY <1>2, BoundsAssumption DEF TickReadSent
<1>3. CASE TickDistance
  BY <1>3, PlacesAssumption DEF TickDistance
<1>4. CASE TickTimeout
  BY <1>4 DEF TickTimeout, TickIdle, Overdue
<1>5. CASE TickAdvance
  BY <1>5 DEF TickAdvance, GoTo, EndWith, LoopsLeft
<1>6. CASE WriteFirst
  BY <1>6 DEF WriteFirst, TickWrite
<1>7. CASE WriteIdx
  BY <1>7 DEF WriteIdx, TickWrite
<1>8. CASE WriteLoop
  BY <1>8 DEF WriteLoop, TickWrite
<1>9. CASE WriteReturn
  BY <1>9 DEF WriteReturn, TickWrite
<1>10. CASE TickSet
  BY <1>10 DEF TickSet, SetPatrolState
<1>11. CASE TickPublish
  BY <1>11 DEF TickPublish, PublishGoal
<1>12. CASE TickRecord
  BY <1>12 DEF TickRecord, RecordGoal, TickIdle
<1>13. CASE TickStopClear
  BY <1>13 DEF TickStopClear, ClearMission
<1>14. CASE TickStopSet
  BY <1>14 DEF TickStopSet, SetPatrolState, TickIdle
<1> QED
  BY <1>1, <1>2, <1>3, <1>4, <1>5, <1>6, <1>7,
     <1>8, <1>9, <1>10, <1>11, <1>12, <1>13, <1>14 DEF TickStep

\* A mission nobody interrupts keeps the robot, the goal and the mission together.
LEMMA AlwaysAlone ==
    ASSUME Single
    PROVE  Spec => [](Typed /\ Begun /\ Alone)
<1>1. Init => Alone
  BY PlacesAssumption DEF Init, Alone, Told, Seen, Starting, Active
<1>2. Typed /\ Begun /\ Alone /\ (Time \/ \E p \in Places : UpdateMapPose(p)) => Alone'
  <2> SUFFICES ASSUME Typed, Begun, Alone, Time \/ \E p \in Places : UpdateMapPose(p)
               PROVE  Alone'
    OBVIOUS
  <2> USE DEF Typed, TypeOK, Begun, Turns, Active, Alone, Told, Seen, Starting, Target,
              mission, cmd, tick, bounds
  <2>1. CASE Time
    BY <2>1, BoundsAssumption DEF Time, Older
  <2>2. ASSUME NEW p \in Places, UpdateMapPose(p) PROVE Alone'
    BY <2>2 DEF UpdateMapPose
  <2> QED BY <2>1, <2>2
<1>3. Alone /\ UNCHANGED vars => Alone'
  BY DEF Active, Alone, Told, Seen, Starting, Target, vars, mission, cmd, tick, bounds
<1>4. Typed /\ Begun /\ Alone /\ [Next]_vars => Alone'
  BY <1>2, <1>3, CmdAlone, TickAlone DEF Next
<1>5. Spec => [](Typed /\ Begun)
  BY AlwaysBegun DEF Single
<1> QED BY <1>1, <1>4, <1>5, PTL DEF Spec

-----------------------------------------------------------------------------
(* The patrol implements PatrolMission.                                    *)

\* Counting waypoints over whole loops and taking the remainder gives the index
\* of the waypoint back.
LEMMA IndexInLoop ==
    ASSUME NEW L \in Nat \ {0}, NEW l \in Nat \ {0}, NEW i \in 0 .. L - 1
    PROVE  /\ (l - 1) * L + i \in Nat
           /\ ((l - 1) * L + i) % L = i
<1>1. PICK q \in Nat : q = l - 1
  OBVIOUS
<1>2. q * L + i \in Nat /\ (q * L + i) % L = i
  BY Z3
<1> QED BY <1>1, <1>2

\* Full loops and one index more stay below the end of the tour.
LEMMA LegInTour ==
    ASSUME NEW L \in Nat \ {0}, NEW n \in Nat \ {0}, NEW l \in 1 .. n, NEW i \in 0 .. L - 1
    PROVE  2 + (l - 1) * L + i \in 2 .. n * L + 1
<1>1. (l - 1) * L \in Nat /\ (n - l) * L \in Nat /\ n * L \in Nat
  BY Z3
<1>2. n * L = (l - 1) * L + L + (n - l) * L
  BY Z3
<1> QED BY <1>1, <1>2

\* While a mission lasts, its fields are those of the accepted payload.
LEMMA MissionFields ==
    ASSUME Typed, Begun, phase # "idle"
    PROVE  /\ missionBar = [route |-> wps, loops |-> total, home |-> home]
           /\ missionBar \in Missions
           /\ wps \in Seq(Places) /\ Len(wps) \in Nat /\ Len(wps) >= 2
           /\ total \in Nat \ {0}
           /\ Abstract!TourLen(missionBar) = total * Len(wps) + 2
<1>1. missionBar = [route |-> wps, loops |-> total, home |-> home] /\ missionBar \in Missions
  BY DEF Begun, OnRoute, missionBar
<1> QED BY <1>1, MissionsAssumption DEF Typed, TypeOK, Abstract!TourLen

\* The phase, the loop and the index name the stop the tour is at.
LEMMA StopIsTarget ==
    ASSUME Typed, Begun, phase # "idle"
    PROVE  /\ Abstract!Stop(missionBar, legBar) = Target
           /\ phase = "patrol" => legBar \in 2 .. total * Len(wps) + 1
<1>0. Len(wps) \in Nat \ {0} /\ total \in Nat \ {0}
  BY MissionFields
<1>1. CASE phase = "go_home_start"
  BY <1>1, MissionFields DEF Abstract!Stop, legBar, Target
<1>2. CASE phase = "patrol"
  <2>1. loop \in 1 .. total /\ idx \in 0 .. Len(wps) - 1 /\ loop \in Nat \ {0}
    BY <1>2 DEF Begun, OnRoute, Typed, TypeOK
  <2>2. legBar = 2 + (loop - 1) * Len(wps) + idx
    BY <1>2 DEF legBar
  <2>3. legBar \in 2 .. total * Len(wps) + 1
    BY <1>0, <2>1, <2>2, LegInTour
  <2>4. /\ (loop - 1) * Len(wps) + idx \in Nat
        /\ ((loop - 1) * Len(wps) + idx) % Len(wps) = idx
    BY <1>0, <2>1, IndexInLoop
  <2>5. legBar - 2 = (loop - 1) * Len(wps) + idx
    <3>1. PICK k \in Nat : k = (loop - 1) * Len(wps) + idx
      BY <2>4
    <3>2. (loop - 1) * Len(wps) = k - idx
      BY <1>0, <2>1, <3>1
    <3> QED BY <2>1, <2>2, <3>1, <3>2
  <2>6. Abstract!TourLen(missionBar) = total * Len(wps) + 2 /\ missionBar.route = wps
    BY MissionFields
  <2>7. legBar # 1 /\ legBar # Abstract!TourLen(missionBar)
    BY <1>0, <2>3, <2>6
  <2>8. Abstract!Stop(missionBar, legBar) = wps[((legBar - 2) % Len(wps)) + 1]
    BY <2>6, <2>7 DEF Abstract!Stop
  <2> QED BY <1>2, <2>3, <2>4, <2>5, <2>8 DEF Target
<1>3. CASE phase = "return_home_end"
  <2>1. legBar = Abstract!TourLen(missionBar) /\ missionBar.home = home
    BY <1>3, MissionFields DEF legBar
  <2> QED BY <1>3, <2>1 DEF Abstract!Stop, Target
<1> QED BY <1>1, <1>2, <1>3 DEF Typed, TypeOK

\* What PatrolMission's variables are computed from.
LEMMA BarStutters ==
    ASSUME UNCHANGED <<phase, wps, home, total, loop, idx, goalTopic, pose>>,
           phase # "idle" \/ stBar' = stBar
    PROVE  UNCHANGED Abstract!vars
  BY DEF Abstract!vars, stBar, missionBar, legBar

\* A step of the command thread begins the mission, sends the first goal, or
\* changes nothing the operator was promised.
LEMMA CmdImplements ==
    ASSUME Single, Typed, Begun, Alone, CmdStep \/ CmdReceive
    PROVE  [Abstract!Next]_(Abstract!vars)
<1> USE DEF mission, cmd, tick, bounds
<1>0. ~ReceiveStop /\ \A p \in Places \cup {NoPlace} : ~ReceiveNavGoal(p)
  BY DEF Single, StartsOnly, ReceiveStop, ReceiveNavGoal, Receive
<1>1. CASE RefuseStart
  BY <1>1, BarStutters DEF RefuseStart, Receive, stBar
<1>2. ASSUME NEW m \in Missions, AcceptStart(m) PROVE Abstract!Begin
  <2>1. m = [route |-> m.route, loops |-> m.loops, home |-> m.home]
    BY MissionsAssumption
  <2>2. missionBar' = m /\ stBar' = "active" /\ legBar' = 1 /\ UNCHANGED <<goalTopic, pose>>
    BY <1>2, <2>1 DEF AcceptStart, Receive, missionBar, stBar, legBar
  <2>3. phase = "idle" /\ stBar # "active"
    BY <1>2 DEF AcceptStart, Receive, Begun, Turns, Active, ActiveStatus, stBar, Typed, TypeOK
  <2> QED BY <2>2, <2>3 DEF Abstract!Begin
<1>3. CASE StartSet
  BY <1>3, BarStutters DEF StartSet, SetPatrolState, Begun, Turns
<1>4. CASE CmdPublish
  <2>1. phase = "go_home_start" /\ goalTopic' = Target
    BY <1>4 DEF CmdPublish, PublishGoal, Begun, Turns, Alone, Told, Starting, Target
  <2>2. UNCHANGED <<stBar, missionBar, legBar, pose>> /\ stBar = "active"
    BY <1>4, <2>1 DEF CmdPublish, PublishGoal, stBar, missionBar, legBar
  <2> QED BY <2>1, <2>2, StopIsTarget DEF Abstract!Next, Abstract!Send
<1>5. CASE StartRecord
  BY <1>5, BarStutters DEF StartRecord, RecordGoal, stBar
<1>6. CASE CmdStopClear \/ CmdStopSet
  BY <1>6 DEF CmdStopClear, CmdStopSet, Begun, Turns
<1>7. CASE Reply
  BY <1>7, BarStutters DEF Reply, stBar
<1> QED BY <1>0, <1>1, <1>2, <1>3, <1>4, <1>5, <1>6, <1>7
        DEF CmdStep, CmdReceive, Abstract!Next

\* Writing the next waypoint, loop or phase is the arrival at a stop.
LEMMA WriteArrives ==
    ASSUME Single, Typed, Begun, Alone, WriteFirst \/ WriteIdx \/ WriteLoop \/ WriteReturn
    PROVE  Abstract!Arrive
<1> USE DEF mission, cmd, tick, bounds
<1>1. /\ phase # "idle" /\ pose = Target /\ goalTopic = Target /\ stBar = "active"
      /\ phase' # "idle" /\ stBar' = "active"
      /\ UNCHANGED <<missionBar, goalTopic, pose, wps, total>>
  BY DEF WriteFirst, WriteIdx, WriteLoop, WriteReturn, TickWrite, Alone, Told, Seen, Starting,
         stBar, missionBar
<1>2. /\ Len(wps) \in Nat \ {0} /\ total \in Nat \ {0}
      /\ Abstract!TourLen(missionBar) = total * Len(wps) + 2
  BY <1>1, MissionFields
<1>3. PICK W \in Nat : W = total * Len(wps)
  BY <1>2
<1>4. legBar < W + 2 /\ legBar' = legBar + 1
  <2>1. CASE WriteFirst
    <3>1. legBar = 1 /\ legBar' = 2 + (1 - 1) * Len(wps) + 0
      BY <2>1 DEF WriteFirst, TickWrite, Begun, OnRoute, legBar
    <3> QED BY <1>2, <1>3, <3>1
  <2>2. CASE WriteIdx \/ WriteLoop \/ WriteReturn
    <3>1. /\ phase = "patrol" /\ loop \in 1 .. total /\ idx \in 0 .. Len(wps) - 1
          /\ legBar = 2 + (loop - 1) * Len(wps) + idx
          /\ legBar \in 2 .. W + 1
      BY <1>3, <2>2, StopIsTarget DEF WriteIdx, WriteLoop, WriteReturn, TickWrite,
         Begun, OnRoute, legBar
    <3>2. PICK V \in Int : V = (loop - 1) * Len(wps)
      BY <1>2, <3>1
    <3>3. loop * Len(wps) = V + Len(wps)
      BY <1>2, <3>1, <3>2
    <3>4. legBar = 2 + V + idx
      BY <3>1, <3>2
    <3>5. CASE WriteIdx
      <4>1. legBar' = 2 + (loop - 1) * Len(wps) + (idx + 1)
        BY <1>1, <3>1, <3>5 DEF WriteIdx, TickWrite, Begun, OnRoute, legBar
      <4> QED BY <1>2, <3>1, <3>2, <3>4, <4>1
    <3>6. CASE WriteLoop
      <4>1. legBar' = 2 + ((loop + 1) - 1) * Len(wps) + 0 /\ idx = Len(wps) - 1
        BY <1>1, <3>1, <3>6 DEF WriteLoop, TickWrite, Begun, OnRoute, legBar
      <4>2. (loop + 1) - 1 = loop
        BY <3>1
      <4> QED BY <1>2, <3>1, <3>3, <3>4, <4>1, <4>2
    <3>7. CASE WriteReturn
      <4>1. legBar' = total * Len(wps) + 2 /\ idx = Len(wps) - 1 /\ loop = total
        BY <1>1, <3>1, <3>7 DEF WriteReturn, TickWrite, Begun, OnRoute, legBar
      <4> QED BY <1>2, <3>1, <3>3, <3>4, <4>1
    <3> QED BY <2>2, <3>1, <3>5, <3>6, <3>7
  <2> QED BY <2>1, <2>2
<1> QED BY <1>1, <1>2, <1>3, <1>4, StopIsTarget DEF Abstract!Arrive, Abstract!Reached

\* A step of patrol_tick arrives at a stop, sends the next goal, finishes the
\* mission, or changes nothing the operator was promised.
LEMMA TickImplements ==
    ASSUME Single, Typed, Begun, Alone, TickStep
    PROVE  [Abstract!Next]_(Abstract!vars)
<1> USE DEF mission, cmd, tick, bounds
<1>1. CASE TickActive \/ TickReadSent \/ TickDistance
  BY <1>1, BarStutters DEF TickActive, TickReadSent, TickDistance, stBar
<1>2. CASE TickTimeout
  BY <1>2, BarStutters DEF TickTimeout, TickIdle, stBar
<1>3. CASE TickAdvance
  BY <1>3, BarStutters DEF TickAdvance, GoTo, EndWith, Alone, Seen
<1>4. CASE WriteFirst \/ WriteIdx \/ WriteLoop \/ WriteReturn
  BY <1>4, WriteArrives DEF Abstract!Next
<1>5. CASE TickSet
  BY <1>5, BarStutters DEF TickSet, SetPatrolState, Begun, Turns
<1>6. CASE TickPublish
  <2>1. phase # "idle" /\ goalTopic' = Target
    BY <1>6 DEF TickPublish, PublishGoal, Begun, Turns, Alone, Told, Starting
  <2>2. UNCHANGED <<stBar, missionBar, legBar, pose>> /\ stBar = "active"
    BY <1>6, <2>1 DEF TickPublish, PublishGoal, stBar, missionBar, legBar
  <2> QED BY <2>1, <2>2, StopIsTarget DEF Abstract!Next, Abstract!Send
<1>7. CASE TickRecord
  BY <1>7, BarStutters DEF TickRecord, RecordGoal, TickIdle, stBar
<1>8. CASE TickStopClear
  <2>1. phase # "idle" /\ stopX \in Abstract!Ended
    BY <1>8 DEF TickStopClear, Begun, Turns, Abstract!Ended
  <2>2. /\ stBar = "active" /\ stBar' = stopX /\ missionBar' = NoMission /\ legBar' = 0
        /\ UNCHANGED <<goalTopic, pose>>
    BY <1>8, <2>1 DEF TickStopClear, ClearMission, stBar, missionBar, legBar
  <2>3. ASSUME stopX = "completed"
        PROVE  legBar = Abstract!TourLen(missionBar) /\ Abstract!Reached
    <3>1. phase = "return_home_end" /\ pose = Target /\ goalTopic = Target
      BY <1>8, <2>3 DEF TickStopClear, Alone, Told, Seen, Starting
    <3> QED BY <2>1, <3>1, MissionFields, StopIsTarget DEF legBar, Abstract!Reached
  <2> QED BY <2>1, <2>2, <2>3 DEF Abstract!Next, Abstract!Finish
<1>9. CASE TickStopSet
  BY <1>9, BarStutters DEF TickStopSet, SetPatrolState, TickIdle, Begun, Turns, stBar
<1> QED BY <1>1, <1>2, <1>3, <1>4, <1>5, <1>6, <1>7, <1>8, <1>9 DEF TickStep

\* Left alone with one mission, the command thread and patrol_tick together do
\* what PatrolMission promises the operator: home, every waypoint of the route
\* in order for every loop, home, and "completed" only then.
THEOREM PatrolImplementsMission ==
    ASSUME Single
    PROVE  Spec => PatrolImplemented
<1>1. Init => Abstract!Init
  BY DEF Init, Abstract!Init, stBar, missionBar, legBar
<1>2. ASSUME Typed, Begun, Alone, [Next]_vars PROVE [Abstract!Next]_(Abstract!vars)
  <2>1. CASE Time
    BY <2>1, BarStutters DEF Time, stBar, mission, cmd, tick, bounds
  <2>2. ASSUME NEW p \in Places, UpdateMapPose(p) PROVE Abstract!Move
    BY <2>2 DEF UpdateMapPose, Abstract!Move, stBar, missionBar, legBar, mission, tick
  <2>3. CASE UNCHANGED vars
    BY <2>3, BarStutters DEF vars, stBar, mission, cmd, tick
  <2> QED BY <1>2, <2>1, <2>2, <2>3, CmdImplements, TickImplements DEF Next, Abstract!Next
<1> QED BY <1>1, <1>2, AlwaysAlone, PTL DEF Spec, PatrolImplemented, Abstract!Spec

-----------------------------------------------------------------------------
(* What MissionEnds and WatchdogBites rest on besides fairness.            *)

\* The next stop of the tour is home, a waypoint, or home again.
NextStop ==
    \/ phase = "go_home_start" /\ phase' = "patrol" /\ loop' = 1 /\ idx' = 0
    \/ /\ phase = "patrol" /\ phase' = "patrol"
       /\ \/ loop' = loop /\ idx' = idx + 1 /\ idx' < Len(wps)
          \/ idx = Len(wps) - 1 /\ loop' = loop + 1 /\ loop' <= total /\ idx' = 0
    \/ /\ phase = "patrol" /\ phase' = "return_home_end"
       /\ idx = Len(wps) - 1 /\ loop = total
       /\ UNCHANGED <<loop, idx>>

\* A mission under way keeps its route, and its goal keeps its age but for the
\* record that follows the publication of the next one.
Onwards ==
    phase # "idle" /\ phase' # "idle" =>
        /\ UNCHANGED <<wps, total, home>>
        /\ UNCHANGED <<phase, loop, idx>> \/ NextStop
        /\ age' >= age \/ pcX = "record" \/ pcC = "record"

\* However often missions are started, and wherever the robot is, a mission under
\* way never goes back or starts afresh: it moves on by one stop at a time, of
\* which its tour has two more than the loops have waypoints, and between two of
\* them time runs towards the watchdog (_advance_patrol_goal, _start_patrol).
THEOREM AlwaysOnwards ==
    ASSUME StartsOnly
    PROVE  Spec => [][Onwards]_vars
<1>1. Typed /\ Begun /\ [Next]_vars => Onwards
  <2> SUFFICES ASSUME Typed, Begun, [Next]_vars, phase # "idle", phase' # "idle"
               PROVE  /\ UNCHANGED <<wps, total, home>>
                      /\ UNCHANGED <<phase, loop, idx>> \/ NextStop
                      /\ age' >= age \/ pcX = "record" \/ pcC = "record"
    BY DEF Onwards
  <2> USE DEF Typed, TypeOK, Begun, OnRoute, Turns, mission, cmd, tick, bounds
  <2>0. age \in Int
    BY BoundsAssumption
  <2>1. CASE CmdReceive
    <3>1. ~ReceiveStop /\ \A p \in Places \cup {NoPlace} : ~ReceiveNavGoal(p)
      BY DEF StartsOnly, ReceiveStop, ReceiveNavGoal, Receive
    <3>2. \A m \in Missions : ~AcceptStart(m)
      BY DEF AcceptStart, Receive
    <3> QED BY <2>0, <2>1, <3>1, <3>2 DEF CmdReceive, RefuseStart
  <2>2. CASE CmdStep
    BY <2>0, <2>2 DEF CmdStep, StartSet, CmdPublish, StartRecord, CmdStopClear, CmdStopSet, Reply,
       SetPatrolState, PublishGoal, RecordGoal
  <2>3. CASE WriteFirst \/ WriteIdx \/ WriteLoop \/ WriteReturn
    <3>1. UNCHANGED <<wps, total, home, age>>
      BY <2>3 DEF WriteFirst, WriteIdx, WriteLoop, WriteReturn, TickWrite
    <3>2. CASE WriteFirst
      BY <3>2 DEF WriteFirst, TickWrite, NextStop
    <3>3. CASE WriteIdx
      BY <3>3 DEF WriteIdx, TickWrite, NextStop
    <3>4. CASE WriteLoop
      BY <3>4 DEF WriteLoop, TickWrite, NextStop
    <3>5. CASE WriteReturn
      BY <3>5 DEF WriteReturn, TickWrite, NextStop
    <3> QED BY <2>0, <2>3, <3>1, <3>2, <3>3, <3>4, <3>5
  <2>4. CASE TickActive \/ TickReadSent \/ TickDistance \/ TickTimeout \/ TickAdvance
    <3>1. UNCHANGED mission
      BY <2>4 DEF TickActive, TickReadSent, TickDistance, TickTimeout, TickAdvance
    <3> QED BY <2>0, <3>1
  <2>5. CASE TickSet \/ TickPublish \/ TickRecord \/ TickStopClear \/ TickStopSet
    BY <2>0, <2>5 DEF TickSet, TickPublish, TickRecord, TickStopClear, TickStopSet, SetPatrolState,
       PublishGoal, RecordGoal, ClearMission
  <2>6. CASE Time
    BY <2>0, <2>6 DEF Time, Older
  <2>7. CASE (\E p \in Places : UpdateMapPose(p)) \/ UNCHANGED vars
    <3>1. UNCHANGED mission
      BY <2>7 DEF UpdateMapPose, vars
    <3> QED BY <2>0, <3>1
  <2> QED BY <2>1, <2>2, <2>3, <2>4, <2>5, <2>6, <2>7 DEF Next, TickStep
<1> QED BY <1>1, AlwaysBegun, PTL DEF Spec

\* How many blocks patrol_tick is from its end, at most ...
TickLeft ==
    CASE pcX = "read_sent" -> 7
      [] pcX = "distance" -> 6
      [] pcX = "advance" -> 5
      [] pcX \in {"write_first", "write_idx", "write_loop", "write_return"} -> 4
      [] pcX \in {"timeout", "set"} -> 3
      [] pcX \in {"stop_clear", "publish"} -> 2
      [] pcX \in {"stop_set", "record"} -> 1
      [] OTHER -> 0

\* ... and the request under way from its answer.
CmdLeft ==
    CASE pcC = "stop_clear" -> 5
      [] pcC \in {"start_set", "stop_set"} -> 4
      [] pcC = "publish" -> 3
      [] pcC = "record" -> 2
      [] pcC = "reply" -> 1
      [] OTHER -> 0

Nearer ==
    /\ pcX # "idle" => TickLeft' <= TickLeft /\ (TickStep => TickLeft' < TickLeft)
    /\ pcC # "recv" => CmdLeft' <= CmdLeft /\ (CmdStep => CmdLeft' < CmdLeft)

\* Neither thread can keep the other from going on: a tick is through after at most
\* eight blocks and a request after at most six, whatever the other thread
\* writes in between (patrol_tick, cmd_loop).
THEOREM ThreadsAlwaysNearer == Spec => [][Nearer]_vars
<1>1. TypeOK /\ CmdStep => UNCHANGED pcX /\ pcC # "recv" /\ CmdLeft' < CmdLeft
  BY DEF TypeOK, CmdLeft, CmdStep, StartSet, CmdPublish, StartRecord, CmdStopClear, CmdStopSet, Reply, tick
<1>2. TypeOK /\ CmdReceive => UNCHANGED pcX /\ pcC = "recv"
  BY DEF CmdReceive, RefuseStart, AcceptStart, ReceiveStop, ReceiveNavGoal, Receive, tick
<1>3. TypeOK /\ TickStep => UNCHANGED pcC /\ (pcX # "idle" => TickLeft' < TickLeft)
  <2> SUFFICES ASSUME TypeOK, TickStep
               PROVE  UNCHANGED pcC /\ (pcX # "idle" => TickLeft' < TickLeft)
    OBVIOUS
  <2>1. CASE TickActive \/ TickReadSent \/ TickDistance \/ TickTimeout
    BY <2>1 DEF TypeOK, TickLeft, TickActive, TickReadSent, TickDistance, TickTimeout, TickIdle, cmd
  <2>2. CASE TickAdvance
    BY <2>2 DEF TypeOK, TickLeft, TickAdvance, GoTo, EndWith, cmd
  <2>3. CASE WriteFirst \/ WriteIdx \/ WriteLoop \/ WriteReturn
    BY <2>3 DEF TypeOK, TickLeft, WriteFirst, WriteIdx, WriteLoop, WriteReturn, TickWrite, cmd
  <2>4. CASE TickSet \/ TickPublish \/ TickRecord \/ TickStopClear \/ TickStopSet
    BY <2>4 DEF TypeOK, TickLeft, TickSet, TickPublish, TickRecord, TickStopClear, TickStopSet,
       TickIdle, cmd
  <2> QED BY <2>1, <2>2, <2>3, <2>4 DEF TickStep
<1>4. Time \/ (\E p \in Places : UpdateMapPose(p)) \/ UNCHANGED vars => UNCHANGED <<pcX, pcC>>
  BY DEF Time, UpdateMapPose, vars, cmd, tick
<1>5. TypeOK /\ [Next]_vars => Nearer
  <2>1. UNCHANGED pcX => TickLeft' = TickLeft
    BY DEF TickLeft
  <2>2. UNCHANGED pcC => CmdLeft' = CmdLeft
    BY DEF CmdLeft
  <2>3. {TickLeft, TickLeft', CmdLeft, CmdLeft'} \subseteq Nat
    BY DEF TickLeft, CmdLeft
  <2>4. ~(TickStep /\ CmdStep /\ TypeOK)
    BY <1>1, <1>3, <2>2, <2>3
  <2> SUFFICES ASSUME TypeOK, [Next]_vars PROVE Nearer
    OBVIOUS
  <2>5. CASE TickStep
    BY <1>3, <2>2, <2>3, <2>4, <2>5 DEF Nearer
  <2>6. CASE CmdStep
    BY <1>1, <2>1, <2>3, <2>4, <2>6 DEF Nearer
  <2>7. CASE CmdReceive /\ ~TickStep
    BY <1>2, <2>1, <2>3, <2>7 DEF Nearer
  <2>8. CASE ~TickStep /\ ~CmdStep /\ UNCHANGED <<pcX, pcC>>
    BY <2>1, <2>2, <2>3, <2>8 DEF Nearer
  <2> QED BY <1>4, <2>5, <2>6, <2>7, <2>8 DEF Next
<1> QED BY <1>5, TypeCorrect, PTL DEF Spec
=============================================================================
