------------------------ MODULE BtActionNodeProofs ------------------------
(***************************************************************************)
(* Proofs about BtActionNode, for any number of goals and any deadline:    *)
(* its safety properties, that it implements ActionCall, that nothing an   *)
(* action server may do was left out, and how near a run is to its end.    *)
(***************************************************************************)
EXTENDS BtActionNode, TLAPS

(* The inductive invariant.                                                *)

\* Where the thread is tells what it holds: while it waits for a response
\* there is one to wait for, and a node at rest is out of tick() and halt().
Position ==
    /\ pc \in {"check", "response", "newResponse"} => future # None
    /\ pc \in {"response", "newResponse"} => elapsed < Timeout
    /\ pc \in {"wait", "some"} => future = None
    /\ pc # "out" => status = "running"
    /\ pc \in {"haltSome", "cancel"} => handle # None
    /\ pc = "cancel" => handle \in cancels

\* Between a response and the next request the handle is that of the last goal.
HandleNewest ==
    /\ future # None => future = sent
    /\ status = "running" /\ future = None => handle = sent /\ sent # None

\* An older goal's handle is all there is while a response is awaited.
HandleOlder ==
    /\ handle <= sent
    /\ future # None => handle < sent

\* The server has only what was sent.
Unsent == \A g \in Goals : g > sent => server[g] = "unsent"

\* The client holds handles of accepted goals only, and knows of no acceptance
\* and no end the server has not come to.
ClientKnows ==
    /\ handle # None => known[handle] \in Live \cup Ended
    /\ \A g \in Goals : known[g] = "rejected" => server[g] = "rejected"
    /\ \A g \in Goals : known[g] \in Live => server[g] \in Live \cup Ended
    /\ \A g \in Goals : known[g] \in Ended => server[g] \in Ended

\* Only goals the server took are asked to be cancelled.
CancelsTaken == \A g \in cancels : server[g] \in Live \cup Ended

\* A result that is taken is that of the last goal, which the client then knows
\* to have ended, and no response is awaited.
ResultNewest ==
    available => /\ result = sent /\ sent # None
                 /\ server[sent] \in Ended /\ known[sent] \in Ended
                 /\ future = None

IInv ==
    /\ TypeOK
    /\ HandleThere
    /\ Position
    /\ HandleNewest
    /\ HandleOlder
    /\ Unsent
    /\ ClientKnows
    /\ CancelsTaken
    /\ ResultNewest

\* The invariant holds before the first tick.
LEMMA IInvInit == Init => IInv
  <1> SUFFICES ASSUME Init PROVE IInv
    OBVIOUS
  <1> USE BoundsAssumption DEF Init
  <1>1. updated \in BOOLEAN /\ available \in BOOLEAN /\ ResultNewest
    BY DEF ResultNewest
  <1>2. TypeOK
    BY <1>1 DEF TypeOK, Goals, Handles, None, Live, Ended, Spinning
  <1>3. HandleThere /\ Position /\ HandleNewest /\ HandleOlder /\ Unsent
    BY DEF HandleThere, Position, HandleNewest, HandleOlder, Unsent, None
  <1>4. ClientKnows /\ CancelsTaken
    BY DEF ClientKnows, CancelsTaken, None, Live, Ended
  <1> QED
    BY <1>1, <1>2, <1>3, <1>4 DEF IInv

\* Every step keeps the invariant.
LEMMA IInvStep == IInv /\ [Next]_vars => IInv'
  <1> SUFFICES ASSUME IInv, [Next]_vars PROVE IInv'
    OBVIOUS
  <1> USE BoundsAssumption
      DEF IInv, TypeOK, HandleThere, Position, HandleNewest, HandleOlder, Unsent, ClientKnows,
          CancelsTaken, ResultNewest, Goals, Handles, None, Live, Ended, Spinning, KeepServer
  <1>1. CASE TickFirst
    <2>1. available' \in BOOLEAN /\ ResultNewest'
      BY <1>1 DEF TickFirst, Send
    <2>2. TypeOK'
      BY <1>1, <2>1 DEF TickFirst, Send
    <2>3. (HandleThere /\ Position /\ HandleNewest /\ HandleOlder /\ Unsent /\ CancelsTaken)'
      BY <1>1 DEF TickFirst, Send
    <2>4. ClientKnows'
      BY <1>1 DEF TickFirst, Send
    <2> QED
      BY <2>1, <2>2, <2>3, <2>4
  <1>2. CASE TickAgain
    BY <1>2 DEF TickAgain
  <1>3. CASE Check
    BY <1>3 DEF Check
  <1>4. CASE Acknowledged
    BY <1>4 DEF Acknowledged
  <1>5. CASE Late
    <2>1. elapsed' \in 0 .. Timeout
      BY <1>5 DEF Late
    <2>2. ResultNewest'
      BY <1>5 DEF Late
    <2> QED
      BY <1>5, <2>1, <2>2 DEF Late
  <1>6. CASE WaitReplace
    <2>1. available' \in BOOLEAN /\ updated' \in BOOLEAN /\ ResultNewest'
      BY <1>6 DEF WaitReplace, Send
    <2>2. TypeOK'
      BY <1>6, <2>1 DEF WaitReplace, Send
    <2>3. (HandleThere /\ Position /\ HandleNewest /\ HandleOlder /\ Unsent /\ CancelsTaken)'
      BY <1>6 DEF WaitReplace, Send
    <2>4. ClientKnows'
      BY <1>6 DEF WaitReplace, Send
    <2> QED
      BY <2>1, <2>2, <2>3, <2>4
  <1>7. CASE WaitOn
    <2>1. /\ UNCHANGED <<status, sent, handle, future, elapsed, available, result>>
          /\ UNCHANGED <<known, server, cancels>>
          /\ updated' \in {updated, TRUE}
          /\ pc = "wait" /\ pc' = IF handle = None THEN "crashed" ELSE "some"
      BY <1>7, Zenon DEF WaitOn
    <2>2. pc' = "some"
      BY <2>1
    <2> QED
      BY <2>1, <2>2
  <1>8. CASE Yield
    BY <1>8 DEF Yield
  <1>9. CASE Halt
    BY <1>9 DEF Halt
  <1>10. CASE HaltCancels
    <2>1. UNCHANGED <<sent, handle, future, elapsed, updated, available, result, known, server>>
          /\ pc = "haltSome"
      BY <1>10, Zenon DEF HaltCancels
    <2>2. CASE known[handle] \in Cancellable
      <3>1. cancels' = cancels \cup {handle} /\ pc' = "cancel" /\ status' = status
        BY <1>10, <2>2, Zenon DEF HaltCancels
      <3>2. handle \in Goals /\ server[handle] \in Live \cup Ended
        BY <2>1
      <3> QED
        BY <2>1, <3>1, <3>2
    <2>3. CASE known[handle] \notin Cancellable
      <3>1. status' = "idle" /\ pc' = "out" /\ cancels' = cancels
        BY <1>10, <2>3, Zenon DEF HaltCancels
      <3> QED
        BY <2>1, <3>1
    <2> QED
      BY <2>2, <2>3
  <1>11. CASE Halted
    BY <1>11 DEF Halted
  <1>12. CASE Time
    BY <1>12 DEF Time
  <1>13. ASSUME NEW g \in Goals, TakeResponse(g) PROVE IInv'
    BY <1>13 DEF TakeResponse, Spins, nodeVars
  <1>14. ASSUME NEW g \in Goals, TakeStatus(g) PROVE IInv'
    BY <1>14 DEF TakeStatus, Spins, nodeVars
  <1>15. ASSUME NEW g \in Goals, TakeResult(g) PROVE IInv'
    <2>1. /\ UNCHANGED <<status, sent, handle, future, elapsed, updated, server, cancels>>
          /\ known[g] \in Live /\ server[g] \in Ended
          /\ known' = [known EXCEPT ![g] = server[g]]
          /\ pc \in Spinning /\ (pc \in {"response", "newResponse"} => known[future] = "unknown")
      BY <1>15 DEF TakeResult, Spins
    <2>2. CASE future = None /\ handle = g
      <3>1. available' = TRUE /\ result' = g /\ pc' = pc
        BY <1>15, <2>2 DEF TakeResult
      <3>2. g = sent
        BY <2>1, <2>2
      <3>3. TypeOK' /\ ResultNewest'
        BY <2>1, <2>2, <3>1, <3>2
      <3> QED
        BY <2>1, <2>2, <3>1, <3>2, <3>3
    <2>3. CASE future = None /\ handle # g
      <3>1. available' = available /\ result' = result /\ pc' = pc
        BY <1>15, <2>1, <2>3 DEF TakeResult
      <3>2. TypeOK' /\ ResultNewest'
        BY <2>1, <3>1
      <3> QED
        BY <2>1, <2>3, <3>1, <3>2
    <2>4. CASE future # None
      <3>1. available' = available /\ result' = result /\ pc' = pc
        BY <1>15, <2>4 DEF TakeResult
      <3>2. TypeOK' /\ ResultNewest'
        BY <2>1, <3>1
      <3> QED
        BY <2>1, <2>4, <3>1, <3>2
    <2> QED
      BY <2>2, <2>3, <2>4
  <1>16. ASSUME NEW g \in Goals, Decide(g) \/ Execute(g) \/ End(g) PROVE IInv'
    <2> DEFINE S(s) == server' = [server EXCEPT ![g] = s]
    <2>1. UNCHANGED <<nodeVars, known, cancels>>
      BY <1>16 DEF Decide, Execute, End
    <2>2. CASE server[g] = "requested" /\ (S("accepted") \/ S("rejected"))
      BY <2>1, <2>2 DEF nodeVars
    <2>3. CASE server[g] = "accepted" /\ S("executing")
      BY <2>1, <2>3 DEF nodeVars
    <2>4. CASE server[g] \in Live /\ (S("succeeded") \/ S("aborted") \/ S("canceled"))
      BY <2>1, <2>4 DEF nodeVars
    <2> QED
      BY <1>16, <2>2, <2>3, <2>4 DEF Decide, Execute, End
  <1>17. CASE UNCHANGED vars
    BY <1>17 DEF vars, nodeVars
  <1> QED
    BY <1>1, <1>2, <1>3, <1>4, <1>5, <1>6, <1>7, <1>8, <1>9, <1>10, <1>11, <1>12, <1>13,
       <1>14, <1>15, <1>16, <1>17 DEF Next, Tick, HaltStep

\* The invariant holds in every state.
LEMMA Invariant == Spec => []IInv
  BY IInvInit, IInvStep, PTL DEF Spec

-----------------------------------------------------------------------------
\* A missing goal handle is never dereferenced, by a waiting tick or by a result
\* callback, however goals are rejected, replaced and given up (tick,
\* send_new_goal).
THEOREM HandleAlwaysThere == Spec => []HandleThere
  <1>1. IInv => HandleThere
    BY DEF IInv
  <1> QED
    BY <1>1, Invariant, PTL

\* A run ends with the result of its last goal (the result callback).
THEOREM AlwaysNewestReported == Spec => NewestReported
  <1>1. IInv /\ [Next]_vars => [(pc = "some" /\ status' = "idle")
                                 => (result = sent /\ server[sent] \in Ended)]_vars
    <2> SUFFICES ASSUME IInv, [Next]_vars, pc = "some", status' = "idle"
                 PROVE  result = sent /\ server[sent] \in Ended
      OBVIOUS
    <2>1. status = "running"
      BY DEF IInv, Position
    <2>2. Yield
      BY <2>1 DEF Next, Tick, HaltStep, TickFirst, TickAgain, Check, Acknowledged, Late,
         WaitReplace, WaitOn, Halt, HaltCancels, Halted, Time, TakeResponse, TakeStatus,
         TakeResult, Decide, Execute, End, vars, nodeVars
    <2>3. available
      BY <2>1, <2>2 DEF Yield
    <2> QED
      BY <2>3 DEF IInv, ResultNewest
  <1> QED
    BY <1>1, Invariant, PTL DEF Spec, NewestReported

\* halt() reaches the goal the node knows of (should_cancel_goal).
THEOREM HaltAlwaysReachesServer == Spec => HaltReachesServer
  <1>1. IInv /\ [Next]_vars => [(pc \in {"haltSome", "cancel"} /\ status' = "idle")
                                 => (handle \in cancels \/ server[handle] \in Ended)]_vars
    <2> SUFFICES ASSUME IInv, [Next]_vars, pc \in {"haltSome", "cancel"}, status' = "idle"
                 PROVE  handle \in cancels \/ server[handle] \in Ended
      OBVIOUS
    <2>1. status = "running" /\ handle # None
      BY DEF IInv, Position
    <2>2. CASE pc = "cancel"
      BY <2>2 DEF IInv, Position
    <2>3. CASE pc = "haltSome"
      <3>1. HaltCancels
        BY <2>1, <2>3 DEF Next, Tick, HaltStep, TickFirst, TickAgain, Check, Acknowledged,
           Late, WaitReplace, WaitOn, Yield, Halt, Halted, Time, TakeResponse, TakeStatus,
           TakeResult, Decide, Execute, End, vars, nodeVars
      <3>2. known[handle] \notin Live
        BY <2>1, <3>1 DEF HaltCancels, Cancellable, Live
      <3> QED
        BY <2>1, <3>2 DEF IInv, ClientKnows, TypeOK, Handles
    <2> QED
      BY <2>2, <2>3
  <1> QED
    BY <1>1, Invariant, PTL DEF Spec, HaltReachesServer

-----------------------------------------------------------------------------
(* The node implements ActionCall.                                         *)

\* What a tree makes of the states of a goal at the server, which rclcpp_action
\* marks as cancelling once that was requested.
LEMMA LifeIs ==
  ASSUME NEW g \in Goals
  PROVE  /\ server[g] \in {"unsent", "requested"} => lifeBar[g] = "none"
         /\ server[g] \in Live /\ g \in cancels => lifeBar[g] = "canceling"
         /\ server[g] \in Live /\ g \notin cancels => lifeBar[g] = "executing"
         /\ server[g] \in {"rejected"} \cup Ended => lifeBar[g] = server[g]
  BY DEF lifeBar, Live, Ended

\* The callbacks and the thread, but for send_new_goal() and the request to
\* cancel, leave the goals at the server alone.
LEMMA LifeKept == UNCHANGED <<server, cancels>> => lifeBar' = lifeBar
  BY DEF lifeBar

\* A step of the server that leaves the other goals alone, seen by the tree.
LEMMA LifeMoved ==
  ASSUME TypeOK, NEW g \in Goals, NEW s, server' = [server EXCEPT ![g] = s],
         UNCHANGED cancels
  PROVE  /\ s \in {"rejected"} \cup Ended => lifeBar' = [lifeBar EXCEPT ![g] = s]
         /\ s \in Live /\ g \notin cancels => lifeBar' = [lifeBar EXCEPT ![g] = "executing"]
         /\ s \in Live /\ server[g] \in Live => lifeBar' = lifeBar
         /\ s \in {"unsent", "requested"} /\ server[g] \in {"unsent", "requested"}
               => lifeBar' = lifeBar
  <1>1. \A h \in Goals : server'[h] = IF h = g THEN s ELSE server[h]
    BY DEF TypeOK
  <1>2. \A h \in Goals \ {g} : lifeBar'[h] = lifeBar[h]
    BY <1>1 DEF lifeBar
  <1>3. /\ lifeBar = [h \in Goals |-> lifeBar[h]]
        /\ lifeBar' = [h \in Goals |-> lifeBar'[h]]
    BY DEF lifeBar
  <1>4. /\ s \in {"rejected"} \cup Ended => lifeBar'[g] = s
        /\ s \in Live /\ g \notin cancels => lifeBar'[g] = "executing"
        /\ s \in Live /\ server[g] \in Live => lifeBar'[g] = lifeBar[g]
        /\ s \in {"unsent", "requested"} /\ server[g] \in {"unsent", "requested"}
              => lifeBar'[g] = lifeBar[g]
    BY <1>1 DEF lifeBar, Live, Ended
  <1> QED
    BY <1>2, <1>3, <1>4

\* Sending a goal is a start, or a replacement (send_new_goal).
LEMMA SendSeen ==
  ASSUME IInv, TickFirst \/ WaitReplace
  PROVE  Call!Start \/ Call!Replace
  <1>1. sent \in Handles /\ sent + 1 \in Goals /\ server[sent + 1] = "unsent"
    BY BoundsAssumption DEF IInv, TypeOK, Unsent, TickFirst, WaitReplace, Send, Handles,
       Goals, None
  <1>2. lifeBar' = lifeBar
    BY <1>1, LifeMoved DEF IInv, TickFirst, WaitReplace, Send
  <1>3. CASE TickFirst
    BY <1>2, <1>3 DEF Call!Start, TickFirst, Send
  <1>4. CASE WaitReplace
    BY <1>2, <1>4 DEF Call!Replace, WaitReplace, Send, IInv, Position, HandleNewest
  <1> QED
    BY <1>3, <1>4

\* A goal the node holds was taken by the server.
LEMMA HeldTaken ==
  ASSUME IInv, handle # None
  PROVE  handle \in Goals /\ server[handle] \in Live \cup Ended
  BY DEF IInv, TypeOK, ClientKnows, Handles, None

\* The answer to a goal request acknowledges the newest goal, or gives it up
\* (is_future_goal_handle_complete).
LEMMA ResponseSeen ==
  ASSUME IInv, Acknowledged
  PROVE  Call!Acknowledge \/ Call!GiveUp
  <1>1. /\ future = sent /\ handle # sent /\ sent \in Goals /\ status = "running"
        /\ lifeBar' = lifeBar /\ sent' = sent
    BY LifeKept DEF IInv, Position, HandleNewest, HandleOlder, TypeOK, Handles, Acknowledged,
       KeepServer, None, Goals
  <1>2. CASE known[sent] = "rejected"
    <2>1. lifeBar[sent] = "rejected"
      BY <1>1, <1>2, LifeIs DEF IInv, ClientKnows
    <2> QED
      BY <1>1, <1>2, <2>1 DEF Acknowledged, Call!GiveUp, Call!None, None
  <1>3. CASE known[sent] # "rejected"
    <2>1. known[sent] \in Live \cup Ended
      BY <1>1, <1>3 DEF IInv, TypeOK, Acknowledged
    <2>2. server[sent] \in Live \cup Ended
      BY <1>1, <2>1 DEF IInv, ClientKnows
    <2>3. lifeBar[sent] \notin {"none", "rejected"}
      BY <1>1, <2>2, LifeIs DEF Ended
    <2> QED
      BY <1>1, <1>3, <2>3 DEF Acknowledged, Call!Acknowledge
  <1> QED
    BY <1>2, <1>3

\* The deadline gives the newest goal up (tick).
LEMMA DeadlineSeen ==
  ASSUME IInv, Check \/ Late
  PROVE  Call!GiveUp \/ UNCHANGED Call!vars
  <1>1. /\ handle # sent /\ status = "running" /\ lifeBar' = lifeBar
        /\ sent' = sent /\ handle' = handle
    BY LifeKept DEF IInv, Position, HandleOlder, TypeOK, Handles, Check, Late, KeepServer,
       None, Goals
  <1> QED
    BY <1>1 DEF Check, Late, Call!GiveUp, Call!vars

\* A result that is there ends the run with the newest goal's outcome (tick).
LEMMA ResultSeen ==
  ASSUME IInv, Yield
  PROVE  Call!Report \/ UNCHANGED Call!vars
  <1>1. lifeBar' = lifeBar /\ status = "running" /\ sent' = sent /\ handle = sent /\ sent # None
    BY LifeKept DEF IInv, Position, HandleNewest, Yield, KeepServer
  <1>2. CASE available
    <2>1. sent \in Goals /\ lifeBar[sent] \in Ended
      BY <1>1, <1>2, LifeIs DEF IInv, ResultNewest, TypeOK, Handles, Ended
    <2> QED
      BY <1>1, <1>2, <2>1 DEF Yield, Call!Report, Call!Over, Ended, Call!None, None
  <1>3. CASE ~available
    BY <1>1, <1>3 DEF Yield, Call!vars
  <1> QED
    BY <1>2, <1>3

\* halt() stops a run whose goal it holds, or gives up one of which it knows
\* nothing; asking for the cancel comes first (should_cancel_goal).
LEMMA HaltSeen ==
  ASSUME IInv, Halt \/ HaltStep
  PROVE  Call!Ask \/ Call!Stop \/ Call!GiveUp \/ UNCHANGED Call!vars
  <1>1. status = "running" /\ sent' = sent /\ handle' = handle
    BY DEF IInv, Position, Halt, HaltStep, HaltCancels, Halted
  <1>2. CASE Halt
    <2>1. lifeBar' = lifeBar
      BY <1>2, LifeKept DEF Halt, KeepServer
    <2>2. handle = None => handle # sent
      BY <1>1 DEF IInv, HandleNewest, HandleOlder, TypeOK, Handles, Goals, None
    <2> QED
      BY <1>1, <1>2, <2>1, <2>2 DEF Halt, Call!GiveUp, Call!vars
  <1>3. CASE HaltCancels
    <2>1. handle # None /\ handle \in Goals /\ server[handle] \in Live \cup Ended
      BY <1>3, HeldTaken DEF IInv, Position, HaltCancels
    <2>2. CASE known[handle] \in Cancellable
      <3>1. cancels' = cancels \cup {handle} /\ server' = server /\ status' = status
        BY <1>3, <2>2 DEF HaltCancels
      <3>2. \A g \in Goals \ {handle} : lifeBar'[g] = lifeBar[g]
        BY <3>1 DEF lifeBar
      <3>3. CASE server[handle] \in Live /\ handle \notin cancels
        <4>1. lifeBar[handle] = "executing" /\ lifeBar'[handle] = "canceling"
          BY <2>1, <3>1, <3>3 DEF lifeBar, Live
        <4>2. lifeBar' = [lifeBar EXCEPT ![handle] = "canceling"]
          BY <3>2, <4>1 DEF lifeBar
        <4> QED
          BY <1>1, <2>1, <3>1, <4>1, <4>2 DEF Call!Ask, Call!None, None
      <3>4. CASE server[handle] \notin Live \/ handle \in cancels
        <4>1. lifeBar'[handle] = lifeBar[handle]
          BY <2>1, <3>1, <3>4 DEF lifeBar
        <4>2. lifeBar' = lifeBar
          BY <3>2, <4>1 DEF lifeBar
        <4> QED
          BY <1>1, <3>1, <4>2 DEF Call!vars
      <3> QED
        BY <3>3, <3>4
    <2>3. CASE known[handle] \notin Cancellable
      <3>1. server[handle] \in Ended
        BY <2>1, <2>3 DEF IInv, ClientKnows, Cancellable, Live
      <3>2. lifeBar[handle] \in Ended /\ lifeBar' = lifeBar
        BY <1>3, <2>1, <2>3, <3>1, LifeIs, LifeKept DEF HaltCancels
      <3> QED
        BY <1>1, <1>3, <2>1, <2>3, <3>2
           DEF HaltCancels, Call!Stop, Call!Over, Ended, Call!None, None
    <2> QED
      BY <2>2, <2>3
  <1>4. CASE Halted
    <2>1. handle # None /\ handle \in Goals /\ server[handle] \in Live \cup Ended
          /\ handle \in cancels
      BY <1>4, HeldTaken DEF IInv, Position, Halted
    <2>2. lifeBar[handle] \in {"canceling"} \cup Ended /\ lifeBar' = lifeBar
      BY <1>4, <2>1, LifeIs, LifeKept DEF Halted, KeepServer
    <2> QED
      BY <1>1, <1>4, <2>1, <2>2 DEF Halted, Call!Stop, Call!Over, Ended, Call!None, None
  <1> QED
    BY <1>2, <1>3, <1>4 DEF HaltStep

\* Spinning, waiting and time, seen by the tree: nothing.
LEMMA SpinSeen ==
  ASSUME \/ TickAgain \/ WaitOn \/ Time
         \/ \E g \in Goals : TakeResponse(g) \/ TakeStatus(g) \/ TakeResult(g)
         \/ UNCHANGED vars
  PROVE  UNCHANGED Call!vars
  <1>1. UNCHANGED <<status, sent, handle, server, cancels>>
    BY DEF TickAgain, WaitOn, Time, TakeResponse, TakeStatus, TakeResult, KeepServer, vars,
       nodeVars
  <1> QED
    BY <1>1, LifeKept DEF Call!vars

\* The server moves goals that were sent, as any action server may.
LEMMA ServerSeen ==
  ASSUME IInv, NEW g \in Goals, Decide(g) \/ Execute(g) \/ End(g)
  PROVE  Call!Serve(g) \/ UNCHANGED Call!vars
  <1> DEFINE S(s) == server' = [server EXCEPT ![g] = s]
  <1>1. UNCHANGED <<status, sent, handle, cancels>>
    BY DEF Decide, Execute, End, nodeVars
  <1>2. server[g] # "unsent" /\ g <= sent
    BY DEF IInv, TypeOK, Unsent, Decide, Execute, End, Live, Handles, Goals, None
  <1>3. ASSUME NEW s \in {"accepted", "rejected"}, S(s), server[g] = "requested"
        PROVE  Call!Serve(g)
    <2>1. lifeBar[g] = "none"
      BY <1>3, LifeIs
    <2>2. g \notin cancels
      BY <1>3 DEF IInv, CancelsTaken, Live, Ended
    <2>3. \E r \in {"rejected", "executing"} : lifeBar' = [lifeBar EXCEPT ![g] = r]
      BY <1>1, <1>3, <2>2, LifeMoved DEF IInv, Live
    <2> QED
      BY <1>1, <1>2, <2>1, <2>3 DEF Call!Serve, Call!Move
  <1>4. ASSUME S("executing"), server[g] = "accepted"
        PROVE  UNCHANGED Call!vars
    <2>1. lifeBar' = lifeBar
      BY <1>1, <1>4, LifeMoved DEF IInv, Live
    <2> QED
      BY <1>1, <2>1 DEF Call!vars
  <1>5. ASSUME NEW s \in Ended, S(s), server[g] \in Live, s = "canceled" => g \in cancels
        PROVE  Call!Serve(g)
    <2>1. lifeBar' = [lifeBar EXCEPT ![g] = s]
      BY <1>1, <1>5, LifeMoved DEF IInv
    <2>2. Call!Move(lifeBar[g], s)
      BY <1>5, LifeIs DEF Call!Move, Call!Over, Ended
    <2> QED
      BY <1>1, <1>2, <1>5, <2>1, <2>2 DEF Call!Serve, Call!Over, Ended
  <1>6. CASE Decide(g)
    BY <1>3, <1>6 DEF Decide
  <1>7. CASE Execute(g)
    BY <1>4, <1>7 DEF Execute
  <1>8. CASE End(g)
    BY <1>5, <1>8 DEF End, Ended
  <1> QED
    BY <1>6, <1>7, <1>8

\* For any number of goals and any deadline, what the tree sees of the node is
\* ActionCall: nothing else ends a run, replaces a goal or cancels one (tick,
\* halt, send_new_goal, the result callback).
THEOREM AlwaysKeepsCall == Spec => CallKept
  <1>1. Init => Call!Init
    <2>1. ASSUME Init PROVE \A g \in Goals : lifeBar[g] = "none"
      BY <2>1, LifeIs DEF Init
    <2>2. ASSUME Init PROVE lifeBar = [g \in Goals |-> "none"]
      BY <2>1, <2>2 DEF lifeBar
    <2> QED
      BY <2>2 DEF Init, Call!Init, Call!Goals, Goals, Call!None, None
  <1>2. IInv /\ [Next]_vars => [Call!Next]_(Call!vars)
    <2> SUFFICES ASSUME IInv, [Next]_vars PROVE Call!Next \/ UNCHANGED Call!vars
      OBVIOUS
    <2>1. CASE TickFirst \/ WaitReplace
      BY <2>1, SendSeen DEF Call!Next
    <2>2. CASE Acknowledged
      BY <2>2, ResponseSeen DEF Call!Next
    <2>3. CASE Check \/ Late
      BY <2>3, DeadlineSeen DEF Call!Next
    <2>4. CASE Yield
      BY <2>4, ResultSeen DEF Call!Next
    <2>5. CASE Halt \/ HaltStep
      BY <2>5, HaltSeen DEF Call!Next
    <2>6. CASE \/ TickAgain \/ WaitOn \/ Time
               \/ \E g \in Goals : TakeResponse(g) \/ TakeStatus(g) \/ TakeResult(g)
               \/ UNCHANGED vars
      BY <2>6, SpinSeen
    <2>7. ASSUME NEW g \in Goals, Decide(g) \/ Execute(g) \/ End(g)
          PROVE  Call!Next \/ UNCHANGED Call!vars
      BY <2>7, ServerSeen DEF Call!Next, Call!Goals, Goals
    <2> QED
      BY <2>1, <2>2, <2>3, <2>4, <2>5, <2>6, <2>7 DEF Next, Tick
  <1> QED
    BY <1>1, <1>2, Invariant, PTL DEF Spec, CallKept, Call!Spec

\* The environment BtActionNode is given is no tamer than an action server: any
\* move of a goal that GoalStates allows, but for the request to cancel, which
\* is the node's, may happen at any time to any goal that was sent.  As the
\* server of bt_navigator makes only such moves (AlwaysLivesKept), what is proved
\* of the node holds with a server like that one (simple_action_server.hpp).
THEOREM ServerUnrestricted ==
  ASSUME IInv,
         NEW g \in Goals, server[g] # "unsent",
         NEW s, Call!Move(lifeBar[g], s), s # "canceling",
         server' = [server EXCEPT ![g] = IF s = "executing" THEN "accepted" ELSE s],
         UNCHANGED <<nodeVars, known, cancels>>
  PROVE  Next /\ lifeBar' = [lifeBar EXCEPT ![g] = s]
  <1> USE DEF Call!Move, Call!Over, Live, Ended
  <1>1. server[g] \in {"requested", "rejected"} \cup Live \cup Ended
    BY DEF IInv, TypeOK
  <1>2. CASE server[g] = "requested"
    <2>1. lifeBar[g] = "none" /\ g \notin cancels
      BY <1>2, LifeIs DEF IInv, CancelsTaken
    <2>2. CASE s = "executing"
      <3>1. server' = [server EXCEPT ![g] = "accepted"]
        BY <2>2
      <3>2. lifeBar' = [lifeBar EXCEPT ![g] = "executing"]
        BY <2>1, <3>1, LifeMoved DEF IInv
      <3> QED
        BY <1>2, <2>2, <3>1, <3>2 DEF Next, Decide
    <2>3. CASE s = "rejected"
      <3>1. server' = [server EXCEPT ![g] = "rejected"]
        BY <2>3
      <3>2. lifeBar' = [lifeBar EXCEPT ![g] = "rejected"]
        BY <3>1, LifeMoved DEF IInv
      <3> QED
        BY <1>2, <2>3, <3>1, <3>2 DEF Next, Decide
    <2> QED
      BY <2>1, <2>2, <2>3
  <1>3. CASE server[g] \in Live
    <2>1. s \in Ended /\ (s = "canceled" => g \in cancels)
      BY <1>3, LifeIs
    <2>2. server' = [server EXCEPT ![g] = s]
      BY <2>1
    <2>3. lifeBar' = [lifeBar EXCEPT ![g] = s]
      BY <2>1, <2>2, LifeMoved DEF IInv
    <2> QED
      BY <1>3, <2>1, <2>2, <2>3 DEF Next, End
  <1>4. CASE server[g] \in {"rejected"} \cup Ended
    <2>1. lifeBar[g] = server[g]
      BY <1>4, LifeIs
    <2> QED
      BY <1>4, <2>1
  <1> QED
    BY <1>1, <1>2, <1>3, <1>4

-----------------------------------------------------------------------------
(* How far a run is from its end (RunEnds).                                *)

\* Three steps for each loop of the tree left until the deadline, while a
\* response is awaited, and those left of the tick under way.
RunLeft ==
    (IF future # None THEN 3 * (Timeout - elapsed) ELSE 0)
        + (CASE pc = "out" -> 2
             [] pc \in {"check", "wait"} -> 1
             [] OTHER -> 0)

\* While the node awaits a response every step of its ticks brings the deadline
\* nearer, and once it has the result every step brings the end of the run
\* nearer; the result is neither lost nor replaced by another goal's, and
\* nothing that happens meanwhile takes the node back.
RunCounts ==
    [][status = "running" /\ status' = "running" /\ (available \/ (future # None /\ future' = future))
       => /\ available => available'
          /\ IF Tick THEN RunLeft' < RunLeft ELSE RunLeft' <= RunLeft]_vars

RunBounded == RunLeft \in 0 .. 3 * Timeout + 2

\* At most three steps a loop of the tree, and two more (tick).
THEOREM RunAlwaysBounded == Spec => []RunBounded
  <1>1. IInv => RunBounded
    BY BoundsAssumption DEF IInv, TypeOK, RunBounded, RunLeft
  <1> QED
    BY <1>1, Invariant, PTL

\* The node gets to its deadline, and a result it has ends the run, whatever the
\* server, the callbacks and the clock do (tick, is_future_goal_handle_complete).
THEOREM RunAlwaysCounts == Spec => RunCounts
  <1>1. IInv /\ [Next]_vars
           => [status = "running" /\ status' = "running"
                  /\ (available \/ (future # None /\ future' = future))
               => /\ available => available'
                  /\ IF Tick THEN RunLeft' < RunLeft ELSE RunLeft' <= RunLeft]_vars
    <2> DEFINE Counts == /\ available => available'
                         /\ IF Tick THEN RunLeft' < RunLeft ELSE RunLeft' <= RunLeft
    <2> SUFFICES ASSUME IInv, [Next]_vars, status = "running", status' = "running",
                        available \/ (future # None /\ future' = future)
                 PROVE  Counts
      OBVIOUS
    <2>1. /\ elapsed \in 0 .. Timeout /\ Timeout \in Nat
          /\ available => future = None /\ known[sent] \in Ended
          /\ available => handle = sent
          /\ pc \in {"check", "response", "newResponse"} => future # None
          /\ pc \in {"wait", "some"} => future = None
      BY BoundsAssumption DEF IInv, TypeOK, Position, HandleNewest, ResultNewest
    <2> USE DEF RunLeft, KeepServer
    <2>2. CASE Tick
      <3> SUFFICES (available => available') /\ RunLeft' < RunLeft
        BY <2>2
      <3>1. CASE TickAgain
        BY <2>1, <3>1 DEF TickAgain
      <3>2. CASE Check
        BY <2>1, <3>2 DEF Check
      <3>3. CASE Acknowledged
        BY <2>1, <3>3 DEF Acknowledged
      <3>4. CASE Late
        <4>1. elapsed' = elapsed + 1 /\ pc' = "out" /\ future' = future /\ future # None
              /\ pc \in {"response", "newResponse"} /\ available' = available
          BY <2>1, <3>4 DEF Late
        <4> QED
          BY <2>1, <4>1
      <3>5. CASE WaitReplace
        BY <2>1, <3>5 DEF WaitReplace, Live, Ended
      <3>6. CASE WaitOn
        BY <2>1, <3>6 DEF WaitOn
      <3>7. CASE Yield
        BY <2>1, <3>7 DEF Yield
      <3> QED
        BY <2>2, <3>1, <3>2, <3>3, <3>4, <3>5, <3>6, <3>7 DEF Tick
    <2>3. CASE ~Tick
      <3> SUFFICES (available => available') /\ RunLeft' <= RunLeft
        BY <2>3
      <3>1. CASE TickFirst
        BY <3>1 DEF TickFirst
      <3>2. CASE Halt
        BY <2>1, <3>2 DEF Halt
      <3>3. CASE HaltStep
        BY <2>1, <3>3 DEF HaltStep, HaltCancels, Halted
      <3>4. CASE Time
        BY <2>1, <3>4 DEF Time
      <3>5. ASSUME NEW g \in Goals, TakeResult(g)
            PROVE  (available => available') /\ RunLeft' <= RunLeft
        <4>1. /\ available => available'
              /\ UNCHANGED <<future, elapsed>> /\ pc \notin {"out", "check", "wait"}
              /\ pc' \in {pc, "crashed"}
          BY <3>5, Zenon DEF TakeResult, Spins, Spinning
        <4> QED
          BY <2>1, <4>1
      <3>6. ASSUME NEW g \in Goals,
                   TakeResponse(g) \/ TakeStatus(g) \/ Decide(g) \/ Execute(g) \/ End(g)
            PROVE  (available => available') /\ RunLeft' <= RunLeft
        <4>1. UNCHANGED <<future, elapsed, pc, available>>
          BY <3>6 DEF TakeResponse, TakeStatus, Decide, Execute, End, nodeVars
        <4> QED
          BY <2>1, <4>1
      <3>7. CASE UNCHANGED vars
        BY <2>1, <3>7 DEF vars, nodeVars
      <3> QED
        BY <2>3, <3>1, <3>2, <3>3, <3>4, <3>5, <3>6, <3>7 DEF Next
    <2> QED
      BY <2>2, <2>3
  <1> QED
    BY <1>1, Invariant, PTL DEF Spec, RunCounts
=============================================================================
