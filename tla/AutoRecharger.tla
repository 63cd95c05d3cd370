--------------------------- MODULE AutoRecharger ---------------------------
(***************************************************************************)
(* The auto-recharge node (auto_recharge_ros2/auto_recharger.py): one      *)
(* thread that reads a key, runs the sections of autoRecharger(key) in     *)
(* order and then serves one callback.  Callbacks also run inside          *)
(* set_charge_mode, which waits for the chassis' answer by spinning the    *)
(* node, so the sensors' state may change in the middle of a section.      *)
(* The navigation stack is seen through BasicNavigator: goToPose,          *)
(* cancelTask, isTaskComplete, getResult.  The first two wait for it       *)
(* without a limit, and meanwhile no callback of the node runs: a section  *)
(* waits at "start" or "lownav" for a goal to be taken, at "dock",         *)
(* "lowcancel", "late" or "cancel" for a cancellation to be answered.      *)
(*                                                                         *)
(* Counters saturate one step past the threshold they are compared with.   *)
(***************************************************************************)
EXTENDS Integers

CONSTANTS
    Keys,           \* the keys the operator presses, "" for none
    Akm,            \* 'akm' in robot['car_mode']
    LowFilter,      \* 5: low-battery readings before the robot goes home
    FullFilter,     \* 10: full-battery readings before charging ends
    RedFilter,      \* 3: infrared readings before docking
    MaxCallCount    \* 10: retries of the set_charge service

AllKeys == {"", "q", "e", "t", "y", "ctrl_c"}

ASSUME RechargerAssumption ==
    /\ Keys \subseteq AllKeys
    /\ Akm \in BOOLEAN
    /\ LowFilter \in Nat /\ FullFilter \in Nat
    /\ RedFilter \in Nat \ {0} /\ MaxCallCount \in Nat

VARIABLES
    chargeflag,             \* 0: off, 1: docking, 2: docking, Ackermann car
    startTurn, findRed,     \* rotating in search of the infrared signal
    listening,              \* star_getNav_Feedback_Flag
    lostCount, lostOnce,    \* power_lost_count, lost_power_once
    complete, lastComplete, \* charge_complete, last_charge_complete
    red, charging, volt, turned,    \* what the callbacks recorded
    vel,                    \* the node's last message on /cmd_vel
    task, status, accepted, \* BasicNavigator: result_future, status, goal_handle
    pc, quitting,           \* the section under way, Ctrl-C being the key
    tries, after, stopping  \* inside set_charge_mode

search  == <<startTurn, findRed>>
power   == <<lostCount, lostOnce>>
full    == <<complete, lastComplete>>
sensors == <<red, charging, volt, turned>>
nav     == <<task, status, accepted>>
call    == <<tries, after, stopping>>
vars    == <<chargeflag, search, listening, power, full, sensors, vel, nav,
             pc, quitting, call>>

Goals    == {"start", "lownav"}
Cancels  == {"dock", "lowcancel", "late", "cancel"}
Sections == {"key", "lowbat", "hz", "recharge", "red", "turn", "full", "lastfull", "spin",
             "exit", "finally", "done"} \cup Goals \cup Cancels
Done     == {"succeeded", "failed", "canceled"}

Init ==
    /\ chargeflag = 0 /\ startTurn = 0 /\ findRed = 0 /\ listening = 0
    /\ lostCount = 0 /\ lostOnce = 1 /\ complete = 0 /\ lastComplete = 0
    /\ red = 0 /\ charging = 0 /\ volt = "full" /\ turned = FALSE
    /\ vel = "zero"
    /\ task = "none" /\ status = "none" /\ accepted = FALSE
    /\ pc = "key" /\ quitting = FALSE
    /\ tries = 0 /\ after = "key" /\ stopping = FALSE

Upto(n, c) == IF c < n THEN c + 1 ELSE n

-----------------------------------------------------------------------------
(* BasicNavigator.                                                         *)

\* goToPose: the server refuses a goal only when it is inactive, and then
\* it has ended the goal it was working on; the old result stays behind
GoToPose == \/ task' = "running" /\ accepted' = TRUE /\ UNCHANGED status
            \/ /\ task \notin {"running", "canceling"}
               /\ accepted' = FALSE /\ UNCHANGED <<task, status>>

\* cancelTask waits for the answer to the request, not for the goal to end
CancelTask == /\ task' = IF task = "running" /\ accepted THEN "canceling" ELSE task
              /\ UNCHANGED <<status, accepted>>

\* isTaskComplete: TRUE without a goal, and then with the status left over
TaskComplete == task \notin {"running", "canceling"}
ReadStatus   == /\ status' = IF task \in Done THEN task ELSE status
                /\ UNCHANGED <<task, accepted>>

\* external: the navigation server ends the goal
NavEnds == /\ \/ task = "running"   /\ task' \in {"succeeded", "failed"}
              \/ task = "canceling" /\ task' \in {"canceled", "succeeded"}
           /\ UNCHANGED <<chargeflag, search, listening, power, full, sensors, vel,
                          status, accepted, pc, quitting, call>>

-----------------------------------------------------------------------------
(* set_charge_mode, called from a section; Stop_Charge goes on after it.   *)

Call(next, stop) == /\ pc' = "charge"
                    /\ tries' = 0 /\ after' = next /\ stopping' = stop

Return == /\ pc' = IF stopping THEN "stopped" ELSE after
          /\ tries' = 0
          /\ IF stopping THEN UNCHANGED <<after, stopping>>
                         ELSE after' = "key" /\ stopping' = FALSE

\* the chassis answers "true"
ChargeSet == /\ pc = "charge"
             /\ Return
             /\ UNCHANGED <<chargeflag, search, listening, power, full, sensors, vel, nav, quitting>>

\* the chassis answers "false": another try, up to a limit
ChargeRetry == /\ pc = "charge"
               /\ IF tries + 1 > MaxCallCount
                  THEN Return
                  ELSE tries' = tries + 1 /\ UNCHANGED <<pc, after, stopping>>
               /\ UNCHANGED <<chargeflag, search, listening, power, full, sensors, vel, nav, quitting>>

\* no chassis node within two seconds: given up before the first try
ChargeUnavailable == /\ pc = "charge" /\ tries = 0
                     /\ Return
                     /\ UNCHANGED <<chargeflag, search, listening, power, full, sensors,
                                    vel, nav, quitting>>

\* Stop_Charge: it has the goal cancelled
StopCharge(next) == /\ listening' = 0
                    /\ pc' = "cancel" /\ after' = next /\ stopping' = TRUE
                    /\ UNCHANGED <<chargeflag, power, nav, tries>>

CancelledKeepsGoal ==       \* mutant: the navigation goal is not cancelled
    /\ pc = "cancel"
    /\ lostOnce' = 1 /\ chargeflag' = 0
    /\ Call(after, TRUE)
    /\ UNCHANGED <<search, listening, lostCount, full, sensors, vel, nav, quitting>>

\* ... goes on to its service call
Cancelled == /\ pc = "cancel" /\ CancelTask
             /\ lostOnce' = 1 /\ chargeflag' = 0
             /\ Call(after, TRUE)
             /\ UNCHANGED <<search, listening, lostCount, full, sensors, vel, quitting>>

\* ... and after it: velocity zero, at once or after backing off the charger
Stopped == /\ pc = "stopped"
           /\ vel' = "zero"
           /\ pc' = after /\ after' = "key" /\ stopping' = FALSE
           /\ UNCHANGED <<chargeflag, search, listening, power, full, sensors, nav,
                          quitting, tries>>

Dock(next) == chargeflag' = 1 /\ Call(next, FALSE)

-----------------------------------------------------------------------------
(* The sections of autoRecharger, in order.                                *)

Goto(section) == pc' = section /\ UNCHANGED call

\* count full-battery readings, then act on the key
CountFull == /\ complete' = IF charging = 0 THEN complete
                            ELSE IF volt = "full" THEN Upto(FullFilter + 1, complete) ELSE 0
             /\ UNCHANGED lastComplete

KeyStart == \/ red >= 3 /\ listening' = 0 /\ Goto("dock")
            \/ red < 3  /\ listening' = 1 /\ Goto("start")

OnKey(k) ==
    /\ pc = "key"
    /\ quitting' = (k = "ctrl_c")
    /\ CountFull
    /\ \/ k = "q" /\ KeyStart
       \/ k = "e" /\ StopCharge("lowbat")
       \/ k \in {"t", "y"} /\ Call("lowbat", FALSE) /\ UNCHANGED listening
       \/ k \in {"", "ctrl_c"} /\ Goto("lowbat") /\ UNCHANGED listening
    /\ UNCHANGED <<chargeflag, search, power, sensors, vel, nav>>

Started == /\ pc = "start" /\ GoToPose
           /\ Goto("lowbat")
           /\ UNCHANGED <<chargeflag, search, listening, power, full, sensors, vel, quitting>>

DockCancelled == /\ pc = "dock" /\ CancelTask
                 /\ Dock("lowbat")
                 /\ UNCHANGED <<search, listening, power, full, sensors, vel, quitting>>

\* low battery: docking is switched on first, then the robot navigates
LowBattery ==
    /\ pc = "lowbat"
    /\ \/ /\ charging = 0 /\ volt = "low"
          /\ \/ /\ lostCount + 1 > LowFilter /\ lostOnce = 1
                /\ lostCount' = 0
                /\ IF chargeflag = 0
                   THEN listening' = 0 /\ Goto("lowcancel")
                   ELSE Goto("hz") /\ UNCHANGED listening
             \/ /\ ~(lostCount + 1 > LowFilter /\ lostOnce = 1)
                /\ lostCount' = Upto(LowFilter + 1, lostCount)
                /\ Goto("hz") /\ UNCHANGED listening
       \/ /\ charging = 0 /\ volt # "low"
          /\ lostCount' = 0
          /\ Goto("hz") /\ UNCHANGED listening
       \/ charging = 1 /\ Goto("hz") /\ UNCHANGED <<listening, lostCount>>
    /\ UNCHANGED <<chargeflag, search, lostOnce, full, sensors, vel, nav, quitting>>

LowCancelled == /\ pc = "lowcancel" /\ CancelTask
                /\ chargeflag' = IF Akm THEN 2 ELSE 1
                /\ Call("lownav", FALSE)
                /\ UNCHANGED <<search, listening, power, full, sensors, vel, quitting>>

LowBatteryNav == /\ pc = "lownav"
                 /\ listening' = 1 /\ GoToPose
                 /\ lostOnce' = 0
                 /\ Goto("hz")
                 /\ UNCHANGED <<chargeflag, search, lostCount, full, sensors, vel, quitting>>

\* once a second: the navigation result, and the charging report
HzSkip == /\ pc = "hz"
          /\ Goto("red")
          /\ UNCHANGED <<chargeflag, search, listening, power, full, sensors, vel, nav, quitting>>

Recharge == lostOnce' = (IF charging = 1 THEN 1 ELSE lostOnce) /\ UNCHANGED lostCount

HzIdle == /\ pc = "hz" /\ listening = 0
          /\ Recharge /\ Goto("red")
          /\ UNCHANGED <<chargeflag, search, listening, full, sensors, vel, nav, quitting>>

HzResult ==
    /\ pc = "hz" /\ listening = 1 /\ TaskComplete
    /\ listening' = 0
    /\ ReadStatus
    /\ \/ /\ status' = "succeeded" /\ red > 0
          /\ Dock("recharge") /\ UNCHANGED <<startTurn, turned, vel, power>>
       \/ /\ status' = "succeeded" /\ red = 0
          /\ startTurn' = 1 /\ turned' = FALSE /\ vel' = "turn"
          /\ Recharge /\ Goto("red") /\ UNCHANGED chargeflag
       \/ /\ status' # "succeeded"
          /\ Recharge /\ Goto("red") /\ UNCHANGED <<chargeflag, startTurn, turned, vel>>
    /\ UNCHANGED <<findRed, full, red, charging, volt, quitting>>

HzWaiting == /\ pc = "hz" /\ listening = 1 /\ ~TaskComplete
             /\ Recharge /\ Goto("red")
             /\ UNCHANGED <<chargeflag, search, listening, full, sensors, vel, nav, quitting>>

\* less than 0.2 m left for over two minutes: give the goal up, dock if possible
HzTooLong == /\ pc = "hz" /\ listening = 1 /\ ~TaskComplete
             /\ listening' = 0
             /\ Goto("late")
             /\ UNCHANGED <<chargeflag, search, power, full, sensors, vel, nav, quitting>>

LateCancelled == /\ pc = "late" /\ CancelTask
                 /\ IF red > 0 THEN Dock("recharge") /\ UNCHANGED power
                               ELSE Recharge /\ Goto("red") /\ UNCHANGED chargeflag
                 /\ UNCHANGED <<search, listening, full, sensors, vel, quitting>>

\* the charging report of the second when a call came before it
HzAfterCall == /\ pc = "recharge"
               /\ Recharge /\ Goto("red")
               /\ UNCHANGED <<chargeflag, search, listening, full, sensors, vel, nav, quitting>>

RedFoundStillTurning ==             \* mutant: the rotation is not stopped
    /\ pc = "red"
    /\ IF findRed >= RedFilter
       THEN findRed' = 0 /\ startTurn' = 0 /\ Dock("turn")
       ELSE Goto("turn") /\ UNCHANGED <<chargeflag, search>>
    /\ UNCHANGED <<listening, power, full, sensors, vel, nav, quitting>>

\* enough infrared readings while rotating: dock
RedFound == /\ pc = "red"
            /\ IF findRed >= RedFilter
               THEN /\ findRed' = 0 /\ startTurn' = 0
                    /\ vel' = "zero"
                    /\ Dock("turn")
               ELSE Goto("turn") /\ UNCHANGED <<chargeflag, search, vel>>
            /\ UNCHANGED <<listening, power, full, sensors, nav, quitting>>

TurnOverUnchecked == FALSE          \* mutant: the rotation is never given up
TurnOver == startTurn = 1 /\ turned

\* a full turn without the signal: give the search up
TurnDone == /\ pc = "turn"
            /\ IF TurnOver
               THEN startTurn' = 0 /\ StopCharge("full")
               ELSE /\ Goto("full")
                    /\ UNCHANGED <<chargeflag, startTurn, listening, power, nav>>
            /\ UNCHANGED <<findRed, full, sensors, vel, quitting>>

Full == complete > FullFilter

ChargeFull == /\ pc = "full"
              /\ IF Full
                 THEN /\ complete' = 0
                      /\ IF lastComplete # 0
                         THEN StopCharge("lastfull")
                         ELSE /\ Goto("lastfull")
                              /\ UNCHANGED <<chargeflag, listening, power, nav>>
                 ELSE /\ Goto("lastfull")
                      /\ UNCHANGED <<complete, chargeflag, listening, power, nav>>
              /\ UNCHANGED <<lastComplete, search, sensors, vel, quitting>>

LastCompleteForgotten ==            \* mutant: last_charge_complete is never set
    /\ pc = "lastfull" /\ Goto("spin")
    /\ UNCHANGED <<chargeflag, search, listening, power, full, sensors, vel, nav, quitting>>

LastComplete == /\ pc = "lastfull"
                /\ lastComplete' = complete
                /\ Goto("spin")
                /\ UNCHANGED <<chargeflag, search, listening, power, complete, sensors, vel,
                               nav, quitting>>

-----------------------------------------------------------------------------
(* Callbacks, served one at a time by spin_once: after the sections, and    *)
(* while set_charge_mode waits.                                             *)

AtSpin == \/ pc = "spin" /\ pc' = IF quitting THEN "exit" ELSE "key"
          \/ pc = "charge" /\ UNCHANGED pc

Callback == /\ AtSpin
            /\ UNCHANGED <<chargeflag, startTurn, listening, power, full, vel, nav,
                           quitting, call>>

\* RED_Flag_callback: n is how many receivers see the signal
RedFlag(n) == /\ Callback
              /\ red' = n
              /\ findRed' = IF startTurn = 0 THEN findRed
                            ELSE IF n > 0 THEN Upto(RedFilter, findRed) ELSE 0
              /\ UNCHANGED <<charging, volt, turned>>

ChargingFlag(c) == /\ Callback
                   /\ charging' = c
                   /\ UNCHANGED <<findRed, red, volt, turned>>

Voltage(v) == /\ Callback
              /\ volt' = v
              /\ UNCHANGED <<findRed, red, charging, turned>>

\* Odom_callback: the robot has turned by more than 2 PI since nav_end_z
Odom == /\ Callback
        /\ turned' = TRUE
        /\ UNCHANGED <<findRed, red, charging, volt>>

\* any other message (charger position, charging current) or none of interest
OtherCallback == Callback /\ UNCHANGED <<findRed, sensors>>

Callbacks == \/ \E n \in {0, 1, 3} : RedFlag(n)
             \/ \E c \in {0, 1} : ChargingFlag(c)
             \/ \E v \in {"low", "normal", "full"} : Voltage(v)
             \/ Odom \/ OtherCallback

\* main: Ctrl-C switches the docking off, and the finally block once more
Quit == /\ \/ pc = "exit" /\ Call("finally", FALSE)
           \/ pc = "finally" /\ Call("done", FALSE)
        /\ vel' = "zero" /\ chargeflag' = 0
        /\ UNCHANGED <<search, listening, power, full, sensors, nav, quitting>>

Answer == ChargeSet \/ ChargeRetry \/ ChargeUnavailable

\* the navigation has taken or refused a goal, or has answered a cancellation
CancelReply == Cancelled \/ DockCancelled \/ LowCancelled \/ LateCancelled
NavReply    == Started \/ LowBatteryNav \/ CancelReply

Section == \/ LowBattery
           \/ HzSkip \/ HzIdle \/ HzResult \/ HzWaiting \/ HzTooLong \/ HzAfterCall
           \/ RedFound \/ TurnDone \/ ChargeFull \/ LastComplete \/ Stopped \/ Quit

Keypress == \E k \in Keys : OnKey(k)

Next == Keypress \/ Section \/ NavReply \/ Answer \/ Callbacks \/ NavEnds

Spec == Init /\ [][Next]_vars

NodeStep == Keypress \/ Section \/ NavReply \/ Answer \/ (pc = "spin" /\ Callbacks)

\* What the node waits for without a limit: the navigation (a cancellation only once it has
\* taken a goal), the chassis' answer, a message to serve.
Waits == pc \in Goals \cup {"charge", "spin"} \/ (pc \in Cancels /\ task # "none")

\* The node runs as long as it waits for nobody (the keyboard takes a tenth of a second).
\* Nothing is assumed of those it waits for.
FairSpec == Spec /\ WF_vars(~Waits /\ NodeStep)

-----------------------------------------------------------------------------
\* Every variable keeps its type.
TypeOK ==
    /\ chargeflag \in 0 .. 2 /\ startTurn \in {0, 1} /\ findRed \in 0 .. RedFilter
    /\ listening \in {0, 1} /\ lostOnce \in {0, 1}
    /\ lostCount \in 0 .. LowFilter + 1
    /\ complete \in 0 .. FullFilter + 1 /\ lastComplete \in 0 .. FullFilter + 1
    /\ red \in {0, 1, 3} /\ charging \in {0, 1} /\ volt \in {"low", "normal", "full"}
    /\ turned \in BOOLEAN /\ vel \in {"zero", "turn"}
    /\ task \in {"none", "running", "canceling"} \cup Done /\ status \in {"none"} \cup Done
    /\ accepted \in BOOLEAN
    /\ pc \in Sections \cup {"charge", "stopped"} /\ quitting \in BOOLEAN
    /\ tries \in 0 .. MaxCallCount
    /\ after \in Sections /\ stopping \in BOOLEAN

\* A navigation goal the node has sent is watched until it ends or is cancelled
\* (Pub_Charger_Position, Pub_NavGoal_Cancel, line 600): no path through the
\* sections stops listening while the goal goes on, but to wait for the answer
\* to its cancellation.
NavSupervised == task = "running" => listening = 1 \/ pc \in Cancels

\* A robot sent rotating is watched by the one-turn limit (line 677), or the
\* node is on its way to stopping it.
TurnSupervised == vel = "turn" => \/ startTurn = 1
                                  \/ pc \in {"cancel", "charge", "stopped"} /\ stopping

\* Nobody keeps the node waiting for ever.
Answered == []<>~Waits

SearchEnds == []<>(~(startTurn = 1 /\ turned) \/ pc = "done")

\* A search that has turned by more than a full turn is given up (line 677),
\* whatever the sensors report, navigation and chassis answer, and the operator,
\* short of quitting, does meanwhile, provided that they do answer.
TurnGivenUp == Answered => SearchEnds

\* A docked robot whose battery stays full is released (line 684), unless the
\* node is quit, and provided that navigation and chassis answer it.
ChargingEnds ==
    Answered => ((charging = 1 /\ volt = "full" /\ chargeflag # 0)
                     ~> (charging = 0 \/ volt # "full" \/ chargeflag = 0 \/ pc = "done"))

-----------------------------------------------------------------------------
(* What comments, messages and help texts say and the code does not keep;  *)
(* the README gives each trace.                                            *)

\* "E/e: Stop find charger" (line 191): docking starts on infrared readings of
\* a rotation search only while the node has the robot rotating.
SearchStopped == [][pc = "red" /\ chargeflag = 0 /\ chargeflag' = 1 => vel = "turn"]_vars

\* "已到达目标点" (line 603): the rotation at the goal starts only when the goal
\* the node last asked for was accepted, and reached.
ArrivedAtGoal == [][startTurn = 0 /\ startTurn' = 1 => accepted]_vars

\* "Quit the program" (line 192): after it no navigation to the charger goes on.
QuitStopsNavigation == pc = "done" => task # "running"

\* "Rotation completed, ... automatic recharging has been stopped" (line 680): a search
\* comes to that although the navigation may be gone, if the chassis is there.
NavNotNeeded == []<>(pc \notin {"charge", "spin"}) => SearchEnds
=============================================================================
