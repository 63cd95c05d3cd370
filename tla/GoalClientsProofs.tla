------------------------- MODULE GoalClientsProofs --------------------------
(***************************************************************************)
(* Proofs about the two programs that send navigate_to_pose goals of their *)
(* own.  AutoRecharger: for every set of keys, either kind of car, every   *)
(* filter length and every number of retries.  WaypointCycle: for any      *)
(* number of points and cancels.                                           *)
(***************************************************************************)
EXTENDS AutoRecharger, WaypointCycle, TLAPS

\* A saturating counter stays within its bound.
LEMMA UptoBounded ==
    ASSUME NEW n \in Nat, NEW c \in 0 .. n
    PROVE  Upto(n, c) \in 0 .. n
  BY DEF Upto

-----------------------------------------------------------------------------
(* The type of the state, the truth values apart from the rest: each half   *)
(* is proved by a different prover.                                        *)

Flags ==
    /\ turned \in BOOLEAN
    /\ accepted \in BOOLEAN
    /\ quitting \in BOOLEAN
    /\ stopping \in BOOLEAN

Counters ==
    /\ chargeflag \in 0 .. 2
    /\ startTurn \in {0, 1}
    /\ findRed \in 0 .. RedFilter
    /\ listening \in {0, 1}
    /\ lostOnce \in {0, 1}
    /\ lostCount \in 0 .. LowFilter + 1
    /\ complete \in 0 .. FullFilter + 1
    /\ lastComplete \in 0 .. FullFilter + 1
    /\ red \in {0, 1, 3}
    /\ charging \in {0, 1}
    /\ tries \in 0 .. MaxCallCount

Places ==
    /\ volt \in {"low", "normal", "full"}
    /\ vel \in {"zero", "turn"}
    /\ task \in {"none", "running", "canceling"} \cup Done
    /\ status \in {"none"} \cup Done
    /\ pc \in Sections \cup {"charge", "stopped"}
    /\ after \in Sections

\* The truth values (callbacks and BasicNavigator).
LEMMA FlagsTyped == Spec => []Flags
  <1> USE RechargerAssumption
  <1>1. Init => Flags
    BY DEF Init, Flags, Sections, Done
  <1>2. Flags /\ [Next]_vars => Flags'
    <2> SUFFICES ASSUME Flags, [Next]_vars PROVE Flags'
      OBVIOUS
    <2> USE DEF Flags, Sections, Goals, Cancels, Done
    <2>1. ASSUME NEW k \in Keys, OnKey(k) PROVE Flags'
      <3>2. CASE k = "q" /\ KeyStart /\ UNCHANGED <<chargeflag, nav, power>>
        BY <2>1, <3>2 DEF OnKey, KeyStart, Goto, power, search, sensors, nav, call
      <3>3. CASE k = "e" /\ StopCharge("lowbat")
        BY <2>1, <3>3 DEF OnKey, StopCharge, power, search, sensors, nav
      <3>4. CASE /\ k \in {"t", "y"}
                 /\ Call("lowbat", FALSE)
                 /\ UNCHANGED <<chargeflag, listening, nav, power>>
        BY <2>1, <3>4 DEF OnKey, Call, search, sensors, power, nav
      <3>5. CASE /\ k \in {"", "ctrl_c"}
                 /\ Goto("lowbat")
                 /\ UNCHANGED <<chargeflag, listening, nav, power>>
        BY <2>1, <3>5 DEF OnKey, Goto, search, sensors, power, nav, call
      <3> QED
        BY <2>1, <3>2, <3>3, <3>4, <3>5 DEF OnKey
    <2>2. CASE LowBattery
      BY <2>2 DEF LowBattery, Goto, search, full, sensors, nav, call
    <2>3. CASE Started \/ LowBatteryNav
      BY <2>3 DEF Started, LowBatteryNav, GoToPose, Goto, search, power, full, sensors, call
    <2>4. CASE HzSkip \/ HzIdle \/ HzWaiting \/ HzAfterCall
      BY <2>4 DEF HzSkip, HzIdle, HzWaiting, HzAfterCall, Recharge, Goto, search, power,
         full, sensors, nav, call
    <2>5. CASE HzResult
      BY <2>5 DEF HzResult, ReadStatus, Recharge, Dock, Call, Goto, power, full, call
    <2>6. CASE HzTooLong
      BY <2>6 DEF HzTooLong, Goto, search, power, full, sensors, nav, call
    <2>7. CASE RedFound
      BY <2>7 DEF RedFound, Dock, Call, Goto, search, power, full, sensors, nav, call
    <2>8. CASE TurnDone
      BY <2>8 DEF TurnDone, StopCharge, Goto, power, full, sensors, nav, call
    <2>9. CASE ChargeFull
      BY <2>9 DEF ChargeFull, StopCharge, Goto, search, power, sensors, nav, call
    <2>10. CASE LastComplete
      BY <2>10 DEF LastComplete, Goto, search, power, sensors, nav, call
    <2>11. CASE Stopped \/ Quit
      BY <2>11 DEF Stopped, Quit, Call, search, power, full, sensors, nav
    <2>12. CASE Answer
      BY <2>12 DEF Answer, ChargeSet, ChargeRetry, ChargeUnavailable, Return, search,
         power, full, sensors, nav
    <2>13. ASSUME NEW n \in {0, 1, 3}, RedFlag(n) PROVE Flags'
      BY <2>13 DEF RedFlag, Callback, AtSpin, power, full, nav, call
    <2>14. ASSUME NEW c \in {0, 1}, ChargingFlag(c) PROVE Flags'
      BY <2>14 DEF ChargingFlag, Callback, AtSpin, power, full, nav, call
    <2>15. ASSUME NEW v \in {"low", "normal", "full"}, Voltage(v) PROVE Flags'
      BY <2>15 DEF Voltage, Callback, AtSpin, power, full, nav, call
    <2>16. CASE Odom \/ OtherCallback
      BY <2>16 DEF Odom, OtherCallback, Callback, AtSpin, power, full, nav, call, sensors
    <2>17. CASE NavEnds
      BY <2>17 DEF NavEnds, search, power, full, sensors, call
    <2>18. CASE UNCHANGED vars
      BY <2>18 DEF vars, search, power, full, sensors, nav, call
    <2>19. CASE CancelReply
      <3>1. CASE Cancelled
        BY <3>1 DEF Cancelled, CancelTask, Call, search, full, sensors
      <3>2. CASE DockCancelled
        BY <3>2 DEF DockCancelled, CancelTask, Dock, Call, search, power, full, sensors
      <3>3. CASE LowCancelled
        BY <3>3 DEF LowCancelled, CancelTask, Call, search, power, full, sensors
      <3>4. CASE LateCancelled
        BY <3>4 DEF LateCancelled, CancelTask, Recharge, Dock, Call, Goto, search, power,
           full, sensors, call
      <3> QED
        BY <2>19, <3>1, <3>2, <3>3, <3>4 DEF CancelReply
    <2> QED
      BY <2>1, <2>2, <2>3, <2>4, <2>5, <2>6, <2>7, <2>8, <2>9, <2>10, <2>11, <2>12,
         <2>13, <2>14, <2>15, <2>16, <2>17, <2>18, <2>19
         DEF Next, Keypress, Section, NavReply, Callbacks
  <1> QED
    BY <1>1, <1>2, PTL DEF Spec

\* Counters stop at their filters (autoRecharger).
LEMMA CountersTyped == Spec => []Counters
  <1> USE RechargerAssumption
  <1>1. Init => Counters
    BY DEF Init, Counters, Sections, Done
  <1>2. Counters /\ [Next]_vars => Counters'
    <2> SUFFICES ASSUME Counters, [Next]_vars PROVE Counters'
      OBVIOUS
    <2> USE DEF Counters, Done
    <2>1. ASSUME NEW k \in Keys, OnKey(k) PROVE Counters'
      <3>0. CountFull /\ UNCHANGED <<search, sensors>>
        BY <2>1 DEF OnKey
      <3>1. complete' \in 0 .. FullFilter + 1 /\ lastComplete' \in 0 .. FullFilter + 1
        BY <3>0 DEF CountFull, Upto
      <3>2. CASE k = "q" /\ KeyStart /\ UNCHANGED <<chargeflag, nav, power>>
        BY <3>0, <3>1, <3>2 DEF KeyStart, Goto, power, search, sensors, nav, call
      <3>3. CASE k = "e" /\ StopCharge("lowbat")
        BY <3>0, <3>1, <3>3 DEF StopCharge, power, search, sensors, nav
      <3>4. CASE /\ k \in {"t", "y"}
                 /\ Call("lowbat", FALSE)
                 /\ UNCHANGED <<chargeflag, listening, nav, power>>
        BY <3>0, <3>1, <3>4 DEF Call, search, sensors, power, nav
      <3>5. CASE /\ k \in {"", "ctrl_c"}
                 /\ Goto("lowbat")
                 /\ UNCHANGED <<chargeflag, listening, nav, power>>
        BY <3>0, <3>1, <3>5 DEF Goto, search, sensors, power, nav, call
      <3> QED
        BY <2>1, <3>2, <3>3, <3>4, <3>5 DEF OnKey
    <2>2. CASE LowBattery
      <3>0. lostCount' \in {0, lostCount, Upto(LowFilter + 1, lostCount)}
        BY <2>2 DEF LowBattery
      <3>1. lostCount' \in 0 .. LowFilter + 1
        BY <3>0 DEF Upto
      <3> QED
        BY <2>2, <3>1 DEF LowBattery, Goto, search, full, sensors, nav, call
    <2>3. CASE Started \/ LowBatteryNav
      BY <2>3 DEF Started, LowBatteryNav, GoToPose, Goto, search, power, full, sensors, call
    <2>4. CASE HzSkip \/ HzIdle \/ HzWaiting \/ HzAfterCall
      BY <2>4 DEF HzSkip, HzIdle, HzWaiting, HzAfterCall, Recharge, Goto, search, power,
         full, sensors, nav, call
    <2>5. CASE HzResult
      BY <2>5 DEF HzResult, ReadStatus, Recharge, Dock, Call, Goto, power, full, call
    <2>6. CASE HzTooLong
      BY <2>6 DEF HzTooLong, Goto, search, power, full, sensors, nav, call
    <2>7. CASE RedFound
      BY <2>7 DEF RedFound, Dock, Call, Goto, search, power, full, sensors, nav, call
    <2>8. CASE TurnDone
      BY <2>8 DEF TurnDone, StopCharge, Goto, power, full, sensors, nav, call
    <2>9. CASE ChargeFull
      BY <2>9 DEF ChargeFull, StopCharge, Goto, search, power, sensors, nav, call
    <2>10. CASE LastComplete
      BY <2>10 DEF LastComplete, Goto, search, power, sensors, nav, call
    <2>11. CASE Stopped \/ Quit
      BY <2>11 DEF Stopped, Quit, Call, search, power, full, sensors, nav
    <2>12. CASE Answer
      BY <2>12 DEF Answer, ChargeSet, ChargeRetry, ChargeUnavailable, Return, search,
         power, full, sensors, nav
    <2>13. ASSUME NEW n \in {0, 1, 3}, RedFlag(n) PROVE Counters'
      <3>1. findRed' \in 0 .. RedFilter
        BY <2>13, UptoBounded DEF RedFlag, Upto
      <3> QED
        BY <2>13, <3>1 DEF RedFlag, Callback, AtSpin, power, full, nav, call
    <2>14. ASSUME NEW c \in {0, 1}, ChargingFlag(c) PROVE Counters'
      BY <2>14 DEF ChargingFlag, Callback, AtSpin, power, full, nav, call
    <2>15. ASSUME NEW v \in {"low", "normal", "full"}, Voltage(v) PROVE Counters'
      BY <2>15 DEF Voltage, Callback, AtSpin, power, full, nav, call
    <2>16. CASE Odom \/ OtherCallback
      BY <2>16 DEF Odom, OtherCallback, Callback, AtSpin, power, full, nav, call, sensors
    <2>17. CASE NavEnds
      BY <2>17 DEF NavEnds, search, power, full, sensors, call
    <2>18. CASE UNCHANGED vars
      BY <2>18 DEF vars, search, power, full, sensors, nav, call
    <2>19. CASE CancelReply
      <3>1. CASE Cancelled
        BY <3>1 DEF Cancelled, CancelTask, Call, search, full, sensors
      <3>2. CASE DockCancelled
        BY <3>2 DEF DockCancelled, CancelTask, Dock, Call, search, power, full, sensors
      <3>3. CASE LowCancelled
        BY <3>3 DEF LowCancelled, CancelTask, Call, search, power, full, sensors
      <3>4. CASE LateCancelled
        BY <3>4 DEF LateCancelled, CancelTask, Recharge, Dock, Call, Goto, search, power,
           full, sensors, call
      <3> QED
        BY <2>19, <3>1, <3>2, <3>3, <3>4 DEF CancelReply
    <2> QED
      BY <2>1, <2>2, <2>3, <2>4, <2>5, <2>6, <2>7, <2>8, <2>9, <2>10, <2>11, <2>12,
         <2>13, <2>14, <2>15, <2>16, <2>17, <2>18, <2>19
         DEF Next, Keypress, Section, NavReply, Callbacks
  <1> QED
    BY <1>1, <1>2, PTL DEF Spec

\* A section that called set_charge_mode goes on with a section.
LEMMA PlacesTyped == Spec => []Places
  <1> USE RechargerAssumption
  <1>1. Init => Places
    BY DEF Init, Places, Sections, Goals, Cancels, Done
  <1>2. Places /\ [Next]_vars => Places'
    <2> SUFFICES ASSUME Places, [Next]_vars PROVE Places'
      OBVIOUS
    <2> USE DEF Places, Sections, Goals, Cancels, Done
    <2>1. ASSUME NEW k \in Keys, OnKey(k) PROVE Places'
      <3>2. CASE k = "q" /\ KeyStart /\ UNCHANGED <<chargeflag, nav, power>>
        BY <2>1, <3>2 DEF OnKey, KeyStart, Goto, power, search, sensors, nav, call
      <3>3. CASE k = "e" /\ StopCharge("lowbat")
        BY <2>1, <3>3 DEF OnKey, StopCharge, power, search, sensors, nav
      <3>4. CASE /\ k \in {"t", "y"}
                 /\ Call("lowbat", FALSE)
                 /\ UNCHANGED <<chargeflag, listening, nav, power>>
        BY <2>1, <3>4 DEF OnKey, Call, search, sensors, power, nav
      <3>5. CASE /\ k \in {"", "ctrl_c"}
                 /\ Goto("lowbat")
                 /\ UNCHANGED <<chargeflag, listening, nav, power>>
        <4>1. pc' = "lowbat" /\ after' = after /\ task' = task /\ status' = status
          BY <3>5, Zenon DEF Goto, nav, call
        <4>2. vel' = vel /\ (volt' = volt \/ volt' \in {"low", "normal", "full"})
          BY <2>1, Zenon DEF OnKey, sensors
        <4> QED BY <4>1, <4>2
      <3> QED
        BY <2>1, <3>2, <3>3, <3>4, <3>5 DEF OnKey
    <2>2. CASE LowBattery
      BY <2>2 DEF LowBattery, Goto, search, full, sensors, nav, call
    <2>3. CASE Started \/ LowBatteryNav
      BY <2>3 DEF Started, LowBatteryNav, GoToPose, Goto, search, power, full, sensors, call
    <2>4. CASE HzSkip \/ HzIdle \/ HzWaiting \/ HzAfterCall
      BY <2>4 DEF HzSkip, HzIdle, HzWaiting, HzAfterCall, Recharge, Goto, search, power,
         full, sensors, nav, call
    <2>5. CASE HzResult
      BY <2>5 DEF HzResult, ReadStatus, Recharge, Dock, Call, Goto, power, full, call
    <2>6. CASE HzTooLong
      BY <2>6 DEF HzTooLong, Goto, search, power, full, sensors, nav, call
    <2>7. CASE RedFound
      BY <2>7 DEF RedFound, Dock, Call, Goto, search, power, full, sensors, nav, call
    <2>8. CASE TurnDone
      BY <2>8 DEF TurnDone, StopCharge, Goto, power, full, sensors, nav, call
    <2>9. CASE ChargeFull
      BY <2>9 DEF ChargeFull, StopCharge, Goto, search, power, sensors, nav, call
    <2>10. CASE LastComplete
      BY <2>10 DEF LastComplete, Goto, search, power, sensors, nav, call
    <2>11. CASE Stopped \/ Quit
      BY <2>11 DEF Stopped, Quit, Call, search, power, full, sensors, nav
    <2>12. CASE Answer
      BY <2>12 DEF Answer, ChargeSet, ChargeRetry, ChargeUnavailable, Return, search,
         power, full, sensors, nav
    <2>13. ASSUME NEW n \in {0, 1, 3}, RedFlag(n) PROVE Places'
      BY <2>13 DEF RedFlag, Callback, AtSpin, power, full, nav, call
    <2>14. ASSUME NEW c \in {0, 1}, ChargingFlag(c) PROVE Places'
      BY <2>14 DEF ChargingFlag, Callback, AtSpin, power, full, nav, call
    <2>15. ASSUME NEW v \in {"low", "normal", "full"}, Voltage(v) PROVE Places'
      BY <2>15 DEF Voltage, Callback, AtSpin, power, full, nav, call
    <2>16. CASE Odom \/ OtherCallback
      BY <2>16 DEF Odom, OtherCallback, Callback, AtSpin, power, full, nav, call, sensors
    <2>17. CASE NavEnds
      BY <2>17 DEF NavEnds, search, power, full, sensors, call
    <2>18. CASE UNCHANGED vars
      BY <2>18 DEF vars, search, power, full, sensors, nav, call
    <2>19. CASE CancelReply
      <3>1. CASE Cancelled
        BY <3>1 DEF Cancelled, CancelTask, Call, search, full, sensors
      <3>2. CASE DockCancelled
        BY <3>2 DEF DockCancelled, CancelTask, Dock, Call, search, power, full, sensors
      <3>3. CASE LowCancelled
        BY <3>3 DEF LowCancelled, CancelTask, Call, search, power, full, sensors
      <3>4. CASE LateCancelled
        BY <3>4 DEF LateCancelled, CancelTask, Recharge, Dock, Call, Goto, search, power,
           full, sensors, call
      <3> QED
        BY <2>19, <3>1, <3>2, <3>3, <3>4 DEF CancelReply
    <2> QED
      BY <2>1, <2>2, <2>3, <2>4, <2>5, <2>6, <2>7, <2>8, <2>9, <2>10, <2>11, <2>12,
         <2>13, <2>14, <2>15, <2>16, <2>17, <2>18, <2>19
         DEF Next, Keypress, Section, NavReply, Callbacks
  <1> QED
    BY <1>1, <1>2, PTL DEF Spec

\* The state has its type: counters stop at their filters, and a section that
\* called set_charge_mode goes on with a section (autoRecharger, set_charge_mode).
THEOREM TypeCorrect == Spec => []TypeOK
  <1>1. Flags /\ Counters /\ Places => TypeOK
    BY DEF Flags, Counters, Places, TypeOK
  <1> QED
    BY <1>1, FlagsTyped, CountersTyped, PlacesTyped, PTL

-----------------------------------------------------------------------------
(* What is in motion is supervised.                                        *)

\* Strengthening: a running goal is one the client was told is accepted;
\* cancelTask() does nothing otherwise.
RunningAccepted == task = "running" => accepted /\ (listening = 1 \/ pc \in Cancels)

\* The key "q" has the goal it sends watched before it waits for the navigation;
\* no section comes back there.
StartWatched == after \notin {"start", "cancel"} /\ (pc = "start" => listening = 1)

LEMMA StartAlwaysWatched == Spec => []StartWatched
  <1>1. Init => StartWatched
    BY DEF Init, StartWatched
  <1>2. StartWatched /\ [Next]_vars => StartWatched'
    <2> SUFFICES ASSUME StartWatched, [Next]_vars PROVE StartWatched'
      OBVIOUS
    <2> USE DEF StartWatched, Goto, Call, call
    <2>1. ASSUME NEW k \in Keys, OnKey(k) PROVE StartWatched'
      <3>1. CASE KeyStart
        BY <3>1 DEF KeyStart
      <3>2. CASE StopCharge("lowbat")
        BY <3>2 DEF StopCharge
      <3>3. CASE Call("lowbat", FALSE) \/ Goto("lowbat")
        BY <3>3
      <3> QED
        BY <2>1, <3>1, <3>2, <3>3 DEF OnKey
    <2>2. CASE LowBattery \/ NavReply
      BY <2>2 DEF LowBattery, NavReply, Started, LowBatteryNav, CancelReply, Cancelled,
         DockCancelled, LowCancelled, LateCancelled, Dock
    <2>3. CASE HzSkip \/ HzIdle \/ HzWaiting \/ HzAfterCall \/ HzResult \/ HzTooLong
      BY <2>3 DEF HzSkip, HzIdle, HzWaiting, HzAfterCall, HzResult, HzTooLong, Dock
    <2>4. CASE RedFound \/ LastComplete \/ Stopped \/ Quit
      BY <2>4 DEF RedFound, LastComplete, Stopped, Quit, Dock
    <2>5. CASE TurnDone \/ ChargeFull
      BY <2>5 DEF TurnDone, ChargeFull, StopCharge
    <2>6. CASE Answer
      BY <2>6 DEF Answer, ChargeSet, ChargeRetry, ChargeUnavailable, Return
    <2>7. CASE Callbacks
      BY <2>7 DEF Callbacks, RedFlag, ChargingFlag, Voltage, Odom, OtherCallback,
         Callback, AtSpin
    <2>8. CASE NavEnds \/ UNCHANGED vars
      BY <2>8 DEF NavEnds, vars
    <2> QED
      BY <2>1, <2>2, <2>3, <2>4, <2>5, <2>6, <2>7, <2>8 DEF Next, Keypress, Section
  <1> QED
    BY <1>1, <1>2, PTL DEF Spec

\* A navigation goal under way is watched, through every section, service call
\* and callback (Pub_NavGoal_Cancel, Pub_Charger_Position).
THEOREM NavAlwaysSupervised == Spec => []NavSupervised
  <1>1. Init => RunningAccepted
    BY DEF Init, RunningAccepted
  <1>2. RunningAccepted /\ StartWatched /\ [Next]_vars => RunningAccepted'
    <2> SUFFICES ASSUME RunningAccepted, StartWatched, [Next]_vars PROVE RunningAccepted'
      OBVIOUS
    <2> USE DEF RunningAccepted, Cancels
    <2>1. ASSUME NEW k \in Keys, OnKey(k) PROVE RunningAccepted'
      <3>1. pc = "key" /\ UNCHANGED nav
        BY <2>1 DEF OnKey
      <3>2. CASE KeyStart
        BY <3>1, <3>2 DEF KeyStart, Goto, nav
      <3>3. CASE StopCharge("lowbat")
        BY <3>1, <3>3 DEF StopCharge, nav
      <3>4. CASE UNCHANGED listening
        BY <3>1, <3>4 DEF nav
      <3> QED
        BY <2>1, <3>2, <3>3, <3>4 DEF OnKey
    <2>2. CASE LowBattery
      BY <2>2 DEF LowBattery, Goto, nav
    <2>3. CASE Started
      BY <2>3 DEF Started, GoToPose, StartWatched
    <2>4. CASE HzSkip \/ HzIdle \/ HzWaiting \/ HzAfterCall
      BY <2>4 DEF HzSkip, HzIdle, HzWaiting, HzAfterCall, nav
    <2>5. CASE HzResult
      BY <2>5 DEF HzResult, TaskComplete, ReadStatus
    <2>6. CASE HzTooLong
      BY <2>6 DEF HzTooLong, Goto, nav
    <2>7. CASE RedFound \/ LastComplete \/ Stopped \/ Quit
      BY <2>7 DEF RedFound, LastComplete, Stopped, Quit, nav
    <2>8. CASE TurnDone
      BY <2>8 DEF TurnDone, StopCharge, nav
    <2>9. CASE ChargeFull
      BY <2>9 DEF ChargeFull, StopCharge, nav
    <2>10. CASE Answer
      BY <2>10 DEF Answer, ChargeSet, ChargeRetry, ChargeUnavailable, nav
    <2>11. CASE Callbacks
      BY <2>11 DEF Callbacks, RedFlag, ChargingFlag, Voltage, Odom, OtherCallback,
         Callback, AtSpin, nav
    <2>12. CASE NavEnds
      BY <2>12 DEF NavEnds
    <2>13. CASE UNCHANGED vars
      BY <2>13 DEF vars, nav
    <2>14. CASE CancelReply
      BY <2>14 DEF CancelReply, Cancelled, DockCancelled, LowCancelled, LateCancelled, CancelTask
    <2>15. CASE LowBatteryNav
      BY <2>15 DEF LowBatteryNav, GoToPose
    <2> QED
      BY <2>1, <2>2, <2>3, <2>4, <2>5, <2>6, <2>7, <2>8, <2>9, <2>10, <2>11, <2>12,
         <2>13, <2>14, <2>15 DEF Next, Keypress, Section, NavReply
  <1>3. RunningAccepted => NavSupervised
    BY DEF RunningAccepted, NavSupervised
  <1> QED
    BY <1>1, <1>2, <1>3, StartAlwaysWatched, PTL DEF Spec

\* A rotating robot is under the one-turn limit or about to be stopped: the
\* service call between the two cannot be left any other way (Stop_Charge).
THEOREM TurnAlwaysSupervised == Spec => []TurnSupervised
  <1>1. Init => TurnSupervised
    BY DEF Init, TurnSupervised
  <1>2. TurnSupervised /\ [Next]_vars => TurnSupervised'
    <2> SUFFICES ASSUME TurnSupervised, [Next]_vars PROVE TurnSupervised'
      OBVIOUS
    <2> USE DEF TurnSupervised
    <2>1. ASSUME NEW k \in Keys, OnKey(k) PROVE TurnSupervised'
      BY <2>1 DEF OnKey, search
    <2>2. CASE LowBattery \/ LowBatteryNav
      BY <2>2 DEF LowBattery, LowBatteryNav, search
    <2>3. CASE HzSkip \/ HzIdle \/ HzWaiting \/ HzAfterCall \/ HzTooLong
      BY <2>3 DEF HzSkip, HzIdle, HzWaiting, HzAfterCall, HzTooLong, search
    <2>4. CASE HzResult
      BY <2>4 DEF HzResult
    <2>5. CASE RedFound
      BY <2>5 DEF RedFound, search
    <2>6. CASE TurnDone
      BY <2>6 DEF TurnDone, StopCharge
    <2>7. CASE ChargeFull \/ LastComplete
      BY <2>7 DEF ChargeFull, LastComplete, search
    <2>8. CASE Stopped \/ Quit
      BY <2>8 DEF Stopped, Quit
    <2>9. CASE Answer
      BY <2>9 DEF Answer, ChargeSet, ChargeRetry, ChargeUnavailable, Return, search
    <2>10. CASE Callbacks
      BY <2>10 DEF Callbacks, RedFlag, ChargingFlag, Voltage, Odom, OtherCallback,
         Callback, AtSpin, call
    <2>11. CASE NavEnds
      BY <2>11 DEF NavEnds, search, call
    <2>12. CASE UNCHANGED vars
      BY <2>12 DEF vars, search, call
    <2>13. CASE Cancelled
      BY <2>13 DEF Cancelled, Call, search
    <2>14. CASE Started \/ DockCancelled \/ LowCancelled \/ LateCancelled
      BY <2>14 DEF Started, DockCancelled, LowCancelled, LateCancelled, search
    <2> QED
      BY <2>1, <2>2, <2>3, <2>4, <2>5, <2>6, <2>7, <2>8, <2>9, <2>10, <2>11, <2>12,
         <2>13, <2>14 DEF Next, Keypress, Section, NavReply, CancelReply
  <1> QED
    BY <1>1, <1>2, PTL DEF Spec

-----------------------------------------------------------------------------
(* How far the node is from reading the next key (TurnGivenUp,             *)
(* ChargingEnds).                                                          *)

\* The sections that are left of a pass, and then of quitting.
Place(section) ==
    CASE section = "key" -> 15
      [] section \in {"start", "dock"} -> 14
      [] section = "lowbat" -> 13
      [] section = "lowcancel" -> 12
      [] section = "lownav" -> 11
      [] section = "hz" -> 10
      [] section = "late" -> 9
      [] section = "recharge" -> 8
      [] section = "red" -> 7
      [] section = "turn" -> 6
      [] section = "full" -> 5
      [] section = "lastfull" -> 4
      [] section = "spin" -> 3
      [] section = "exit" -> 2
      [] section = "finally" -> 1
      [] OTHER -> 0

\* Stop_Charge goes from the cancellation to the service call and then to the stop.
InCall == pc \in {"cancel", "charge", "stopped"}
Ahead == Place(IF InCall THEN after ELSE pc)

\* The tries left of a call of the charging service, and what follows them.
CallLeft == CASE pc = "cancel"  -> MaxCallCount + 3
              [] pc = "charge"  -> MaxCallCount - tries + 2
              [] pc = "stopped" -> 1
              [] OTHER -> 0

\* Every step of the node goes on to a later section, or brings the service call
\* it waits in nearer to its end; callbacks and the end of a navigation goal
\* take it back nowhere.
PassCounts ==
    [][pc # "spin" =>
         IF NodeStep
         THEN Ahead' < Ahead \/ (Ahead' = Ahead /\ CallLeft' < CallLeft)
         ELSE Ahead' = Ahead /\ CallLeft' = CallLeft]_vars

CallBounded == CallLeft \in 0 .. MaxCallCount + 3

\* A call of the charging service is over after the first try and the retries,
\* and what Stop_Charge does after it (set_charge_mode).
THEOREM CallAlwaysBounded == Spec => []CallBounded
  <1>1. Counters => CallBounded
    <2> SUFFICES ASSUME Counters PROVE CallBounded
      OBVIOUS
    <2>1. MaxCallCount \in Nat /\ tries \in 0 .. MaxCallCount
      BY RechargerAssumption DEF Counters
    <2>2. \A m \in Nat : \A n \in 0 .. m : {m - n + 2, m + 3, 1, 0} \subseteq 0 .. m + 3
      OBVIOUS
    <2> QED
      BY <2>1, <2>2 DEF CallBounded, CallLeft
  <1> QED
    BY <1>1, CountersTyped, PTL

\* Whatever keys are pressed, and whatever the sensors report and the chassis
\* answers in the middle of a section, the node comes back to the keyboard, so
\* every section is looked at again: a turn without a signal is seen to be over,
\* a full battery is counted (autoRecharger, set_charge_mode, main).
THEOREM PassAlwaysCounts == Spec => PassCounts
  <1> DEFINE Counts == Ahead' < Ahead \/ (Ahead' = Ahead /\ CallLeft' < CallLeft)
             Same == Ahead' = Ahead /\ CallLeft' = CallLeft
  <1>1. Counters /\ Places /\ StartWatched /\ [Next]_vars
           => [pc # "spin" => IF NodeStep THEN Counts ELSE Same]_vars
    <2> SUFFICES ASSUME Counters, Places, StartWatched, [Next]_vars, pc # "spin"
                 PROVE  IF NodeStep THEN Counts ELSE Same
      OBVIOUS
    <2> USE DEF Goto, Call
    <2>1. /\ after \notin {"cancel", "charge", "stopped"}
          /\ MaxCallCount \in Nat /\ tries \in 0 .. MaxCallCount
      BY RechargerAssumption DEF Places, Counters, StartWatched, Sections, Goals, Cancels
    \* A section ends in a later one, at once or after a call.
    <2>2. ASSUME NEW s, NEW t, pc = s, s \notin {"cancel", "charge", "stopped"},
                 t \notin {"cancel", "charge", "stopped"}, Place(t) < Place(s),
                 (pc' = t \/ (pc' \in {"cancel", "charge"} /\ after' = t))
          PROVE  Ahead' < Ahead
      BY <2>2 DEF Ahead, InCall
    <2>3. CASE NodeStep
      <3> SUFFICES Counts
        BY <2>3
      <3>1. ASSUME NEW k \in Keys, OnKey(k) PROVE Counts
        <4>1. /\ pc = "key"
              /\ \/ pc' \in {"start", "dock", "lowbat"}
                 \/ pc' \in {"cancel", "charge"} /\ after' = "lowbat"
          BY <3>1 DEF OnKey, KeyStart, StopCharge
        <4> QED
          BY <2>2, <4>1 DEF Place
      <3>2. CASE LowBattery
        <4>1. /\ pc = "lowbat"
              /\ pc' \in {"lowcancel", "hz"}
          BY <3>2 DEF LowBattery
        <4> QED
          BY <2>2, <4>1 DEF Place
      <3>3. CASE LowBatteryNav
        <4>1. pc = "lownav" /\ pc' = "hz"
          BY <3>3 DEF LowBatteryNav
        <4> QED
          BY <2>2, <4>1 DEF Place
      <3>4. CASE HzSkip \/ HzIdle \/ HzWaiting \/ HzResult \/ HzTooLong
        <4>1. pc = "hz" /\ (pc' \in {"late", "red"} \/ (pc' = "charge" /\ after' = "recharge"))
          BY <3>4 DEF HzSkip, HzIdle, HzWaiting, HzResult, HzTooLong, Dock
        <4> QED
          BY <2>2, <4>1 DEF Place
      <3>5. CASE HzAfterCall
        <4>1. pc = "recharge" /\ pc' = "red"
          BY <3>5 DEF HzAfterCall
        <4> QED
          BY <2>2, <4>1 DEF Place
      <3>6. CASE RedFound
        <4>1. pc = "red" /\ (pc' = "turn" \/ (pc' = "charge" /\ after' = "turn"))
          BY <3>6 DEF RedFound, Dock
        <4> QED
          BY <2>2, <4>1 DEF Place
      <3>7. CASE TurnDone
        <4>1. pc = "turn" /\ (pc' = "full" \/ (pc' = "cancel" /\ after' = "full"))
          BY <3>7 DEF TurnDone, StopCharge
        <4> QED
          BY <2>2, <4>1 DEF Place
      <3>8. CASE ChargeFull
        <4>1. pc = "full" /\ (pc' = "lastfull" \/ (pc' = "cancel" /\ after' = "lastfull"))
          BY <3>8 DEF ChargeFull, StopCharge
        <4> QED
          BY <2>2, <4>1 DEF Place
      <3>9. CASE LastComplete
        <4>1. pc = "lastfull" /\ pc' = "spin"
          BY <3>9 DEF LastComplete
        <4> QED
          BY <2>2, <4>1 DEF Place
      <3>10. CASE Quit
        <4>1. \/ pc = "exit" /\ pc' = "charge" /\ after' = "finally"
              \/ pc = "finally" /\ pc' = "charge" /\ after' = "done"
          BY <3>10 DEF Quit
        <4> QED
          BY <2>2, <4>1 DEF Place
      <3>11. CASE Stopped
        <4>1. pc = "stopped" /\ pc' = after
          BY <3>11 DEF Stopped
        <4>2. pc' \notin {"cancel", "charge", "stopped"}
          BY <2>1, <4>1
        <4> QED
          BY <4>1, <4>2 DEF Ahead, InCall, CallLeft
      <3>12. CASE Answer
        <4>1. pc = "charge" /\ CallLeft = MaxCallCount - tries + 2
          BY <3>12 DEF Answer, ChargeSet, ChargeRetry, ChargeUnavailable, CallLeft
        <4>2. CASE Return
          <5>1. \/ pc' = "stopped" /\ after' = after
                \/ pc' = after /\ pc' \notin {"cancel", "charge", "stopped"}
            BY <2>1, <4>2 DEF Return
          <5>2. CallLeft' \in {0, 1}
            BY <5>1 DEF CallLeft
          <5>3. Ahead' = Ahead
            BY <4>1, <5>1 DEF Ahead, InCall
          <5> QED
            BY <2>1, <4>1, <5>2, <5>3
        <4>3. CASE tries' = tries + 1 /\ UNCHANGED <<pc, after, stopping>>
          BY <2>1, <4>1, <4>3 DEF Ahead, InCall, CallLeft
        <4> QED
          BY <3>12, <4>2, <4>3 DEF Answer, ChargeSet, ChargeRetry, ChargeUnavailable
      <3>13. CASE Started
        <4>1. pc = "start" /\ pc' = "lowbat"
          BY <3>13 DEF Started
        <4> QED
          BY <2>2, <4>1 DEF Place
      <3>14. CASE DockCancelled \/ LowCancelled
        <4>1. \/ pc = "dock" /\ pc' = "charge" /\ after' = "lowbat"
              \/ pc = "lowcancel" /\ pc' = "charge" /\ after' = "lownav"
          BY <3>14 DEF DockCancelled, LowCancelled, Dock
        <4> QED
          BY <2>2, <4>1 DEF Place
      <3>15. CASE LateCancelled
        <4>1. pc = "late" /\ (pc' = "red" \/ (pc' = "charge" /\ after' = "recharge"))
          BY <3>15 DEF LateCancelled, Dock
        <4> QED
          BY <2>2, <4>1 DEF Place
      <3>16. CASE Cancelled
        <4>1. pc = "cancel" /\ pc' = "charge" /\ after' = after /\ tries' = 0
          BY <3>16 DEF Cancelled
        <4>2. CallLeft = MaxCallCount + 3 /\ CallLeft' = MaxCallCount + 2
          BY <2>1, <4>1 DEF CallLeft
        <4> QED
          BY <2>1, <4>1, <4>2 DEF Ahead, InCall
      <3> QED
        BY <2>3, <3>1, <3>2, <3>3, <3>4, <3>5, <3>6, <3>7, <3>8, <3>9, <3>10, <3>11, <3>12,
           <3>13, <3>14, <3>15, <3>16 DEF NodeStep, Keypress, Section, NavReply, CancelReply
    <2>4. CASE ~NodeStep
      <3>1. Callbacks \/ NavEnds \/ UNCHANGED vars
        BY <2>4 DEF Next, NodeStep
      <3>2. UNCHANGED <<pc, after, tries>>
        BY <3>1 DEF Callbacks, RedFlag, ChargingFlag, Voltage, Odom, OtherCallback, Callback,
           AtSpin, NavEnds, vars, call
      <3> QED
        BY <2>4, <3>2 DEF Ahead, InCall, CallLeft
    <2> QED
      BY <2>3, <2>4
  <1> QED
    BY <1>1, CountersTyped, PlacesTyped, StartAlwaysWatched, PTL DEF Spec, PassCounts

-----------------------------------------------------------------------------
(* WaypointCycle.  The types alone do not say that waypoints are sent in   *)
(* turn: the last waypoint sent is always the one before index, whichever  *)
(* branch of pose_callback moved the index.                                *)

SentBeforeIndex == count > 0 => sent = index - 1

CycleInv == CycleTypeOK /\ SentBeforeIndex

-----------------------------------------------------------------------------
\* Sending a waypoint keeps the queue a queue of waypoints (publish_pose).
LEMMA QueueTyped ==
    ASSUME goals \in Seq(0..MaxPoints - 1), NEW i \in 0..MaxPoints - 1
    PROVE  Append(goals, i) \in Seq(0..MaxPoints - 1)
  OBVIOUS

\* Every action keeps both parts; the branches of pose_callback need that a
\* status is heard only after a first click, which count > 0 says.
LEMMA CycleStep == CycleInv /\ [CycleNext]_cycleVars => CycleInv'
  <1> SUFFICES ASSUME CycleInv, [CycleNext]_cycleVars PROVE CycleInv'
    OBVIOUS
  <1> USE CycleAssumption
  <1> USE DEF CycleInv, SentBeforeIndex, CycleTypeOK, nodeVars, serverVars, Over, Heard, Said
  <1>1. CASE Click
    <2>1. CASE count = 0
      <3>1. goals' \in Seq(0..MaxPoints - 1)
        BY <1>1, <2>1, QueueTyped DEF Click, PublishPose
      <3> QED BY <1>1, <2>1, <3>1 DEF Click, PublishPose
    <2>2. CASE count # 0
      BY <1>1, <2>2 DEF Click
    <2> QED BY <2>1, <2>2
  <1>2. CASE GoalOver
    <2>1. Following \in 0..count - 1
      BY <1>2 DEF GoalOver, Following
    <2>2. goals' \in Seq(0..MaxPoints - 1)
      BY <1>2, <2>1, QueueTyped DEF GoalOver, PublishPose
    <2>3. statuses' \in Seq(Heard) /\ heard' \in Heard
      BY <1>2 DEF GoalOver, Hear
    <2> QED BY <1>2, <2>1, <2>2, <2>3 DEF GoalOver, PublishPose
  <1>3. CASE SendAgain
    <2>1. index - 1 \in 0..count - 1
      BY <1>3 DEF SendAgain
    <2>2. goals' \in Seq(0..MaxPoints - 1)
      BY <1>3, <2>1, QueueTyped DEF SendAgain, PublishPose
    <2>3. statuses' \in Seq(Heard) /\ heard' \in Heard
      BY <1>3 DEF SendAgain, Hear
    <2> QED BY <1>3, <2>1, <2>2, <2>3 DEF SendAgain, PublishPose
  <1>4. CASE GiveUp
    <2>1. statuses' \in Seq(Heard) /\ heard' \in Heard
      BY <1>4 DEF GiveUp, Hear
    <2>2. CASE index < count
      <3>1. goals' = Append(goals, index)
        BY <1>4, <2>2 DEF GiveUp, PublishPose
      <3>2. index \in 0..MaxPoints - 1
        BY <2>2
      <3>3. goals' \in Seq(0..MaxPoints - 1)
        BY <3>1, <3>2, QueueTyped
      <3> QED BY <1>4, <2>1, <2>2, <3>3 DEF GiveUp, PublishPose
    <2>3. CASE ~(index < count)
      <3>1. /\ UNCHANGED <<goals, sent, index, tryAgain, count, serverVars>>
            /\ said' = "unreachable"
        BY <1>4, <2>3, Zenon DEF GiveUp
      <3> QED BY <2>1, <3>1
    <2> QED BY <2>2, <2>3
  <1>5. CASE Accept
    BY <1>5 DEF Accept
  <1>6. CASE OlderEnds
    <2>1. newest # "executing" => Append(statuses, newest) \in Seq(Heard)
      BY <1>6 DEF OlderEnds
    <2>2. statuses' \in Seq(Heard)
      BY <1>6, <2>1 DEF OlderEnds
    <2>3. older' \in BOOLEAN
      BY <1>6 DEF OlderEnds
    <2> QED BY <1>6, <2>2, <2>3 DEF OlderEnds
  <1>7. CASE Cancel
    BY <1>7 DEF Cancel
  <1>8. CASE Ends
    <2>1. PICK s \in Over : End(s)
      BY <1>8 DEF Ends
    <2>2. statuses' \in Seq(Heard) /\ newest' \in Heard
      BY <2>1 DEF End
    <2> QED BY <2>1, <2>2 DEF End
  <1>9. CASE UNCHANGED cycleVars
    BY <1>9 DEF cycleVars
  <1> QED BY <1>1, <1>2, <1>3, <1>4, <1>5, <1>6, <1>7, <1>8, <1>9 DEF CycleNext, Node

\* The invariant holds before the first waypoint.
LEMMA CycleStart == CycleInit => CycleInv
  <1> SUFFICES ASSUME CycleInit PROVE CycleInv
    OBVIOUS
  <1>1. tryAgain \in BOOLEAN /\ older \in BOOLEAN
    BY DEF CycleInit
  <1>2. goals \in Seq(0..MaxPoints - 1) /\ statuses \in Seq(Heard)
    BY DEF CycleInit
  <1> QED
    BY <1>1, <1>2, CycleAssumption DEF CycleInit, CycleInv, CycleTypeOK, SentBeforeIndex, Heard, Said

\* The invariant holds in every state.
LEMMA CycleInvariant == CycleSpec => []CycleInv
  BY CycleStart, CycleStep, PTL DEF CycleSpec

-----------------------------------------------------------------------------
\* Every variable keeps its type; a waypoint sent is one that was clicked.
THEOREM CycleTypeCorrect == CycleSpec => []CycleTypeOK
  <1>1. CycleInv => CycleTypeOK
    BY DEF CycleInv
  <1> QED BY <1>1, CycleInvariant, PTL

\* Waypoints are sent in the order they were clicked and round again after the
\* last one: pose_callback repeats a waypoint in its place or goes on to the
\* next, and never skips one, however many are clicked or cancelled.
THEOREM AlwaysInTurn == CycleSpec => NextInTurn
  <1>1. ASSUME CycleInv, CycleNext, Node, goals' # goals
        PROVE  sent' \in {sent, sent + 1} \/ (sent' = 0 /\ sent + 1 = count)
    <2> USE <1>1 DEF CycleInv, CycleTypeOK, SentBeforeIndex
    <2>1. CASE GoalOver
      BY <2>1 DEF GoalOver, Following, PublishPose
    <2>2. CASE SendAgain
      BY <2>2 DEF SendAgain, PublishPose
    <2>3. CASE GiveUp
      BY <2>3 DEF GiveUp, PublishPose
    <2> QED BY <2>1, <2>2, <2>3 DEF Node
  <1>2. CycleInv /\ [CycleNext]_cycleVars =>
          [Node /\ goals' # goals
           => sent' \in {sent, sent + 1} \/ (sent' = 0 /\ sent + 1 = count)]_cycleVars
    BY <1>1
  <1> QED BY <1>2, CycleInvariant, PTL DEF CycleSpec, NextInTurn

\* Something is under way that will make the node send again: a goal on its way
\* or at work, or a status still to be heard, the last of which says that the
\* newest goal is over.
Turning ==
    count > 0 =>
        \/ goals # <<>>
        \/ newest \in {"executing", "canceling"}
        \/ statuses # <<>> /\ statuses[Len(statuses)] \in Over

\* Before the first click no goal was ever sent.
Untouched == count = 0 => goals = <<>> /\ newest = "none" /\ statuses = <<>>

\* Adding a status makes it the last; taking one away leaves the last in place.
LEMMA LastStatus ==
    ASSUME statuses \in Seq(Heard)
    PROVE  /\ \A s \in Heard : /\ Append(statuses, s) # <<>>
                               /\ Append(statuses, s)[Len(Append(statuses, s))] = s
           /\ statuses # <<>> /\ Tail(statuses) # <<>> =>
                  Tail(statuses)[Len(Tail(statuses))] = statuses[Len(statuses)]
           /\ statuses # <<>> /\ Tail(statuses) = <<>> => statuses[Len(statuses)] = Head(statuses)
  <1>1. \A s \in Heard : Len(Append(statuses, s)) = Len(statuses) + 1
    OBVIOUS
  <1>2. \A s \in Heard : /\ Append(statuses, s) # <<>>
                         /\ Append(statuses, s)[Len(statuses) + 1] = s
    OBVIOUS
  <1>3. ASSUME statuses # <<>>
        PROVE  /\ Len(Tail(statuses)) = Len(statuses) - 1
               /\ \A i \in 1 .. Len(statuses) - 1 : Tail(statuses)[i] = statuses[i + 1]
               /\ Head(statuses) = statuses[1]
               /\ Tail(statuses) \in Seq(Heard)
    BY <1>3
  <1>4. Len(statuses) \in Nat
    OBVIOUS
  <1>5. statuses # <<>> => Len(statuses) # 0
    OBVIOUS
  <1>6. ASSUME statuses # <<>>, Tail(statuses) # <<>>
        PROVE  Tail(statuses)[Len(Tail(statuses))] = statuses[Len(statuses)]
    <2>1. \A q \in Seq(Heard) : Len(q) = 0 => q = <<>>
      OBVIOUS
    <2>2. Len(statuses) - 1 # 0
      BY <1>3, <1>6, <2>1
    <2>3. Tail(statuses)[Len(statuses) - 1] = statuses[Len(statuses) - 1 + 1]
      BY <1>3, <1>4, <1>5, <1>6, <2>2
    <2> QED BY <1>3, <1>4, <1>6, <2>3
  <1>7. ASSUME statuses # <<>>, Tail(statuses) = <<>>
        PROVE  statuses[Len(statuses)] = Head(statuses)
    <2>1. Len(statuses) - 1 = 0
      BY <1>3, <1>7
    <2> QED BY <1>3, <1>4, <1>7, <2>1
  <1> QED BY <1>1, <1>2, <1>6, <1>7

\* Giving a waypoint up without sending another, as pose_callback does at the end
\* of a round, leaves the goal that is being cancelled to end, or its end to be heard.
LEMMA TurningStep == CycleInv /\ Untouched /\ Turning /\ [CycleNext]_cycleVars => (Untouched /\ Turning)'
  <1> SUFFICES ASSUME CycleInv, Untouched, Turning, [CycleNext]_cycleVars
               PROVE  (Untouched /\ Turning)'
    OBVIOUS
  <1> USE DEF CycleInv, CycleTypeOK, Untouched, Turning, nodeVars, serverVars
  <1>1. CASE Click
    BY <1>1 DEF Click, PublishPose
  <1>2. CASE GoalOver \/ SendAgain
    <2>1. count > 0 /\ count' = count /\ \E i : goals' = Append(goals, i)
      BY <1>2 DEF GoalOver, SendAgain, PublishPose
    <2>2. goals' # <<>>
      BY <2>1
    <2> QED BY <2>1, <2>2
  <1>3. CASE GiveUp
    <2>1. /\ count > 0 /\ count' = count /\ newest' = newest
          /\ statuses # <<>> /\ Head(statuses) = "canceling" /\ statuses' = Tail(statuses)
      BY <1>3 DEF GiveUp, Hear
    <2>2. CASE index < count
      <3>1. goals' = Append(goals, index)
        BY <1>3, <2>2 DEF GiveUp, PublishPose
      <3>2. goals' # <<>>
        BY <3>1
      <3> QED BY <2>1, <3>2
    <2>3. CASE ~(index < count)
      <3>1. goals' = goals
        BY <1>3, <2>3, Zenon DEF GiveUp
      <3> QED BY <2>1, <3>1, LastStatus DEF Over
    <2> QED BY <2>2, <2>3
  <1>4. CASE Accept
    BY <1>4 DEF Accept
  <1>5. CASE OlderEnds
    BY <1>5 DEF OlderEnds
  <1>6. CASE Cancel
    BY <1>6 DEF Cancel
  <1>7. CASE Ends
    <2>1. PICK s \in Over : End(s)
      BY <1>7 DEF Ends
    <2>2. statuses' = Append(statuses, s) /\ s \in Heard
      BY <2>1 DEF End, Heard
    <2>3. statuses' # <<>> /\ statuses'[Len(statuses')] = s
      BY <2>2, LastStatus
    <2>4. count' = count /\ count # 0
      BY <2>1 DEF End
    <2> QED BY <2>1, <2>3, <2>4
  <1>8. CASE UNCHANGED cycleVars
    BY <1>8 DEF cycleVars
  <1> QED BY <1>1, <1>2, <1>3, <1>4, <1>5, <1>6, <1>7, <1>8 DEF CycleNext, Node

\* The cycle never comes to rest once a point was clicked, whatever is cancelled,
\* preempted or given up: this and the turn of the waypoints are what
\* CycleGoesOn rests on besides fairness (pose_callback).
THEOREM AlwaysTurning == CycleSpec => []Turning
  <1>1. CycleInit => Untouched /\ Turning
    BY DEF CycleInit, Untouched, Turning
  <1> QED BY <1>1, TurningStep, CycleInvariant, PTL DEF CycleSpec
=============================================================================
