------------------------ MODULE BtActionServerProofs ------------------------
(***************************************************************************)
(* What TLAPS proves of BtActionServer, for every set of goals and trees:  *)
(* the state has its type, no accepted goal is dropped without an end, the *)
(* tree pursues the current goal, the callback never gets a null goal      *)
(* until the worker misses the deadline of deactivate() and always ends    *)
(* the goal it returns with; a pending goal is never far from being        *)
(* served; and what clients see is ActionGoals.  And, for every            *)
(* number of navigators, that the muxer they share is never left locked.   *)
(***************************************************************************)
EXTENDS BtActionServer, TLAPS

\* What the handles may be: never a goal the server has not accepted, never
\* twice the same, and never the one handle_accepted() is about to store.
HandlesApart ==
    /\ \A h \in {current, pending} : h # NoGoal => status[h] \in Live \cup Over
    /\ current = pending => current = NoGoal
    /\ exec = "accepted" =>
          /\ held \in Goals
          /\ held \notin {current, pending}
          /\ Active(held)

IInv == TypeOK /\ HandlesApart /\ NoGoalLost /\ PursuesCurrent

\* The positions at which the callback relies on a live goal.
GoalAtHand ==
    exec # "failed" => /\ worker = "goal" => Active(current)
                       /\ worker \in {"pendingGoal", "accept"} => Active(pending)

NullInv == IInv /\ BtNeverGivenNull /\ GoalAtHand

-----------------------------------------------------------------------------
\* The status of every goal after terminate() of a set of handles.
LEMMA TerminatedStatus ==
    ASSUME status \in [Goals -> Status], NEW hs
    PROVE  /\ Terminated(hs) \in [Goals -> Status]
           /\ \A g \in Goals :
                 Terminated(hs)[g] = IF g \in hs /\ Active(g)
                                     THEN IF status[g] = "canceling"
                                          THEN "canceled" ELSE "aborted"
                                     ELSE status[g]
  BY GoalsAssumption DEF Terminated, Active, Canceling, Status, Live, Over

\* Every step keeps the types.
LEMMA TypeStep == TypeOK /\ [Next]_vars => TypeOK'
  <1> SUFFICES ASSUME TypeOK, [Next]_vars PROVE TypeOK'
    OBVIOUS
  <1> USE GoalsAssumption, TreesAssumption
          DEF Handles, ExecAt, WorkerAt, Looping, Results
  <1>1. CASE UNCHANGED vars
    BY <1>1 DEF TypeOK, vars, serverVars, btVars
  <1>2. ASSUME NEW g \in Goals, Request(g) PROVE TypeOK'
    BY <1>2 DEF TypeOK, Request, RequestGoal, RefuseGoal, Status, Live, Over
  <1>3. CASE Accepted
    <2>1. status' \in [Goals -> Status]
      BY <1>3, TerminatedStatus DEF TypeOK, Accepted, QueueGoal, StartGoal
    <2>2. preempt' \in BOOLEAN
      <3>1. CASE QueueGoal
        BY <3>1, Zenon DEF QueueGoal
      <3>2. CASE StartGoal
        BY <3>2, Zenon DEF StartGoal
      <3> QED
        BY <1>3, <3>1, <3>2, Zenon DEF Accepted
    <2>3. /\ current' \in Handles /\ pending' \in Handles /\ held' \in Handles
          /\ exec' = "idle" /\ worker' \in {"while", worker}
          /\ UNCHANGED <<active, stop, btVars>>
      BY <1>3 DEF TypeOK, Accepted, QueueGoal, StartGoal
    <2> QED
      BY <2>1, <2>2, <2>3 DEF TypeOK, btVars
  <1>4. CASE Cancel
    BY <1>4 DEF TypeOK, Cancel, MarkCanceling, RequestCancel, btVars, Status,
                Live, Over
  <1>5. CASE OnActivate
    <2>1. active' \in BOOLEAN /\ stop' \in BOOLEAN
      BY <1>5, Zenon DEF OnActivate, Activate
    <2> QED
      BY <1>5, <2>1 DEF TypeOK, OnActivate, Activate
  <1>6. CASE OnDeactivate
    <2>1. CASE Deactivate
      <3>1. active' \in BOOLEAN /\ stop' \in BOOLEAN
        BY <2>1, Zenon DEF Deactivate
      <3> QED
        BY <1>6, <2>1, <3>1 DEF TypeOK, OnDeactivate, Deactivate, btVars
    <2>2. CASE Deactivated
      BY <1>6, <2>2 DEF TypeOK, OnDeactivate, Deactivated, btVars
    <2>3. CASE MissDeadline
      <3>1. preempt' \in BOOLEAN
        BY <2>3, Zenon DEF MissDeadline
      <3> QED
        BY <1>6, <2>3, <3>1, TerminatedStatus DEF TypeOK, OnDeactivate, MissDeadline, btVars
    <2> QED
      BY <1>6, <2>1, <2>2, <2>3 DEF OnDeactivate
  <1>7. CASE WorkerStep
    <2> USE DEF Goto, KeepServer, KeepThreads, serverVars, btVars, Crash
    <2>1. CASE ReceiveGoal \/ DeclineGoal \/ ReceiveNull
      BY <2>1 DEF TypeOK, ReceiveGoal, DeclineGoal, ReceiveNull, Active
    <2>2. CASE Refuse
      BY <2>2, TerminatedStatus DEF TypeOK, Refuse, TerminateCurrent
    <2>3. CASE CheckActive \/ CheckCancel \/ CheckPreempt \/ GetPending
               \/ GetPendingNull \/ AcceptNull
      BY <2>3 DEF TypeOK, CheckActive, CheckCancel, CheckPreempt, GetPending,
                  GetPendingNull, AcceptNull, AfterLoop
    <2>4. CASE AcceptPreempt
      BY <2>4 DEF TypeOK, AcceptPreempt, AcceptPending, AfterLoop, Active,
                  Status, Live, Over
    <2>5. CASE RejectPreempt
      BY <2>5, TerminatedStatus DEF TypeOK, RejectPreempt, TerminatePending, AfterLoop
    <2>6. ASSUME NEW r \in {"running", "success", "failure"}, Tick(r)
          PROVE  TypeOK'
      <3>1. pursued \in Goals \/ pursued = NoGoal
        BY DEF TypeOK
      <3> QED
        BY <2>6, <3>1 DEF TypeOK, Tick
    <2>7. CASE TickThrows
      BY <2>7 DEF TypeOK, TickThrows
    <2>8. CASE Finish
      <3>1. CASE result = "success"
        BY <2>8, <3>1 DEF TypeOK, Finish, Outcome, SucceedCurrent, Status, Live, Over
      <3>2. CASE result = "failure"
        BY <2>8, <3>2, TerminatedStatus DEF TypeOK, Finish, Outcome, TerminateCurrent
      <3>3. CASE result = "canceled"
        <4>1. TerminateAll
          BY <2>8, <3>3 DEF Finish, Outcome
        <4>2. preempt' \in BOOLEAN
          BY <4>1, Zenon DEF TerminateAll
        <4> QED
          BY <2>8, <4>1, <4>2, TerminatedStatus DEF TypeOK, Finish, TerminateAll
      <3> QED
        BY <2>8, <3>1, <3>2, <3>3 DEF TypeOK, Finish
    <2>9. CASE Work
      <3>1. CASE WorkWhile \/ WorkReturn
        BY <2>9, <3>1 DEF TypeOK, Work, WorkWhile, WorkReturn
      <3>2. CASE WorkStop
        BY <2>9, <3>2, TerminatedStatus DEF TypeOK, Work, WorkStop, TerminateAll
      <3>3. CASE WorkNext
        BY <2>9, <3>3 DEF TypeOK, Work, WorkNext, AcceptPending, Active,
                          Status, Live, Over
      <3>4. CASE WorkDone
        BY <2>9, <3>4, TerminatedStatus DEF TypeOK, Work, WorkDone, TerminateCurrent
      <3> QED
        BY <2>9, <3>1, <3>2, <3>3, <3>4 DEF Work
    <2> QED
      BY <1>7, <2>1, <2>2, <2>3, <2>4, <2>5, <2>6, <2>7, <2>8, <2>9
         DEF WorkerStep, LoopStep
  <1> QED
    BY <1>1, <1>2, <1>3, <1>4, <1>5, <1>6, <1>7 DEF Next

\* No handle is lost, duplicated or left behind by a step, and the blackboard
\* follows the current handle.
LEMMA HandleStep == IInv /\ [Next]_vars => (HandlesApart /\ NoGoalLost /\ PursuesCurrent)'
  <1> DEFINE Kept == (HandlesApart /\ NoGoalLost /\ PursuesCurrent)'
  <1> SUFFICES ASSUME IInv, [Next]_vars PROVE Kept
    OBVIOUS
  <1> USE GoalsAssumption
          DEF IInv, TypeOK, HandlesApart, NoGoalLost, PursuesCurrent, Active, Canceling,
              Handles, ExecAt, WorkerAt, Looping, Results, Status, Live, Over
  <1>1. CASE UNCHANGED vars
    BY <1>1 DEF vars, serverVars, btVars
  <1>2. ASSUME NEW g \in Goals, Request(g) PROVE Kept
    BY <1>2 DEF Request, RequestGoal, RefuseGoal, Ready
  <1>3. CASE Accepted
    <2>1. CASE QueueGoal
      BY <1>3, <2>1, TerminatedStatus DEF Accepted, QueueGoal, btVars
    <2>2. CASE StartGoal
      BY <1>3, <2>2, TerminatedStatus DEF Accepted, StartGoal, btVars
    <2> QED
      BY <1>3, <2>1, <2>2 DEF Accepted
  <1>4. CASE Cancel
    BY <1>4 DEF Cancel, MarkCanceling, RequestCancel, btVars, Ready
  <1>5. CASE OnActivate
    BY <1>5 DEF OnActivate, Activate
  <1>6. CASE OnDeactivate
    <2>1. CASE Deactivate
      BY <1>6, <2>1 DEF OnDeactivate, Deactivate, Ready, btVars
    <2>2. CASE Deactivated
      BY <1>6, <2>2 DEF OnDeactivate, Deactivated, btVars
    <2>3. CASE MissDeadline
      BY <1>6, <2>3, TerminatedStatus DEF OnDeactivate, MissDeadline, btVars
    <2> QED
      BY <1>6, <2>1, <2>2, <2>3 DEF OnDeactivate
  <1>7. CASE WorkerStep
    <2> USE DEF Goto, KeepServer, KeepThreads, serverVars, btVars, Crash
    <2>1. CASE ReceiveGoal \/ DeclineGoal \/ ReceiveNull
      BY <2>1 DEF ReceiveGoal, DeclineGoal, ReceiveNull
    <2>2. CASE Refuse
      BY <2>2, TerminatedStatus DEF Refuse, TerminateCurrent
    <2>3. CASE CheckActive \/ CheckCancel \/ CheckPreempt \/ GetPending
               \/ GetPendingNull \/ AcceptNull
      BY <2>3 DEF CheckActive, CheckCancel, CheckPreempt, GetPending,
                  GetPendingNull, AcceptNull, AfterLoop
    <2>4. CASE AcceptPreempt
      BY <2>4 DEF AcceptPreempt, AcceptPending, AfterLoop
    <2>5. CASE RejectPreempt
      BY <2>5, TerminatedStatus DEF RejectPreempt, TerminatePending, AfterLoop
    <2>6. ASSUME NEW r \in {"running", "success", "failure"}, Tick(r)
          PROVE  Kept
      BY <2>6 DEF Tick
    <2>7. CASE TickThrows
      BY <2>7 DEF TickThrows
    <2>8. CASE Finish
      <3>1. CASE SucceedCurrent
        BY <2>8, <3>1 DEF Finish, SucceedCurrent
      <3>2. CASE TerminateCurrent
        BY <2>8, <3>2, TerminatedStatus DEF Finish, TerminateCurrent
      <3>3. CASE TerminateAll
        BY <2>8, <3>3, TerminatedStatus DEF Finish, TerminateAll
      <3> QED
        BY <2>8, <3>1, <3>2, <3>3 DEF Finish, Outcome
    <2>9. CASE Work
      <3>1. CASE WorkWhile \/ WorkReturn
        BY <2>9, <3>1 DEF Work, WorkWhile, WorkReturn
      <3>2. CASE WorkStop
        BY <2>9, <3>2, TerminatedStatus DEF Work, WorkStop, TerminateAll
      <3>3. CASE WorkNext
        BY <2>9, <3>3 DEF Work, WorkNext, AcceptPending
      <3>4. CASE WorkDone
        BY <2>9, <3>4, TerminatedStatus DEF Work, WorkDone, TerminateCurrent
      <3> QED
        BY <2>9, <3>1, <3>2, <3>3, <3>4 DEF Work
    <2> QED
      BY <1>7, <2>1, <2>2, <2>3, <2>4, <2>5, <2>6, <2>7, <2>8, <2>9
         DEF WorkerStep, LoopStep
  <1> QED
    BY <1>1, <1>2, <1>3, <1>4, <1>5, <1>6, <1>7 DEF Next

\* The invariant holds in every state.
LEMMA InductiveInvariant == Spec => []IInv
  <1>1. Init => IInv
    BY GoalsAssumption, TreesAssumption
       DEF Init, ServerInit, IInv, TypeOK, HandlesApart, NoGoalLost, PursuesCurrent,
           Active, Handles, Status, Live, Over, ExecAt, WorkerAt, Looping, Results
  <1>2. IInv /\ [Next]_vars => IInv'
    BY TypeStep, HandleStep DEF IInv
  <1> QED
    BY <1>1, <1>2, PTL DEF Spec

\* The state has its type in every reachable state: the status of the goals, the
\* handles, the flags and the positions of both threads.
THEOREM TypeCorrect == Spec => []TypeOK
  BY InductiveInvariant, PTL DEF IInv

\* Every goal the server accepts stays in one of its two slots until it is
\* ended, whatever is sent, cancelled, preempted or deactivated meanwhile.
THEOREM GoalsNeverLost == Spec => []NoGoalLost
  BY InductiveInvariant, PTL DEF IInv

\* The goal on the blackboard is the goal the server reports on.
THEOREM TreePursuesCurrent == Spec => []PursuesCurrent
  BY InductiveInvariant, PTL DEF IInv

-----------------------------------------------------------------------------
\* As long as deactivate() waits for the worker, no step takes a live goal away
\* from the callback between the blocks that read it.
LEMMA NullStep ==
    NullInv /\ IInv' /\ [Next]_vars => (BtNeverGivenNull /\ GoalAtHand)'
  <1> DEFINE Kept == (BtNeverGivenNull /\ GoalAtHand)'
  <1> SUFFICES ASSUME NullInv, IInv', [Next]_vars PROVE Kept
    OBVIOUS
  <1> USE GoalsAssumption
          DEF NullInv, IInv, TypeOK, HandlesApart, BtNeverGivenNull, GoalAtHand, Active,
              Canceling, Handles, ExecAt, WorkerAt, Looping, Results, Status, Live, Over
  <1>1. CASE UNCHANGED vars
    BY <1>1 DEF vars, serverVars, btVars
  <1>2. ASSUME NEW g \in Goals, Request(g) PROVE Kept
    BY <1>2 DEF Request, RequestGoal, RefuseGoal, Ready
  <1>3. CASE Accepted
    <2>1. CASE QueueGoal
      BY <1>3, <2>1, TerminatedStatus DEF Accepted, QueueGoal, btVars
    <2>2. CASE StartGoal
      BY <1>3, <2>2, TerminatedStatus DEF Accepted, StartGoal, btVars
    <2> QED
      BY <1>3, <2>1, <2>2 DEF Accepted
  <1>4. CASE Cancel
    BY <1>4 DEF Cancel, MarkCanceling, RequestCancel, btVars, Ready
  <1>5. CASE OnActivate
    BY <1>5 DEF OnActivate, Activate
  <1>6. CASE OnDeactivate
    <2>1. CASE Deactivate \/ Deactivated
      BY <1>6, <2>1 DEF OnDeactivate, Deactivate, Deactivated, Ready, btVars
    <2>2. CASE MissDeadline
      BY <2>2 DEF MissDeadline
    <2> QED
      BY <1>6, <2>1, <2>2 DEF OnDeactivate
  <1>7. CASE WorkerStep
    <2> USE DEF Goto, KeepServer, KeepThreads, serverVars, btVars, Crash
    <2>1. CASE ReceiveGoal \/ DeclineGoal \/ ReceiveNull
      BY <2>1 DEF ReceiveGoal, DeclineGoal, ReceiveNull
    <2>2. CASE Refuse
      BY <2>2, TerminatedStatus DEF Refuse, TerminateCurrent
    <2>3. CASE CheckActive \/ CheckCancel \/ CheckPreempt \/ GetPending
               \/ GetPendingNull \/ AcceptNull
      BY <2>3 DEF CheckActive, CheckCancel, CheckPreempt, GetPending,
                  GetPendingNull, AcceptNull, AfterLoop
    <2>4. CASE AcceptPreempt
      BY <2>4 DEF AcceptPreempt, AcceptPending, AfterLoop
    <2>5. CASE RejectPreempt
      BY <2>5, TerminatedStatus DEF RejectPreempt, TerminatePending, AfterLoop
    <2>6. ASSUME NEW r \in {"running", "success", "failure"}, Tick(r)
          PROVE  Kept
      BY <2>6 DEF Tick
    <2>7. CASE TickThrows
      BY <2>7 DEF TickThrows
    <2>8. CASE Finish
      <3>1. CASE SucceedCurrent
        BY <2>8, <3>1 DEF Finish, SucceedCurrent
      <3>2. CASE TerminateCurrent
        BY <2>8, <3>2, TerminatedStatus DEF Finish, TerminateCurrent
      <3>3. CASE TerminateAll
        BY <2>8, <3>3, TerminatedStatus DEF Finish, TerminateAll
      <3> QED
        BY <2>8, <3>1, <3>2, <3>3 DEF Finish, Outcome
    <2>9. CASE Work
      <3>1. CASE WorkWhile \/ WorkReturn
        BY <2>9, <3>1 DEF Work, WorkWhile, WorkReturn
      <3>2. CASE WorkStop
        BY <2>9, <3>2, TerminatedStatus DEF Work, WorkStop, TerminateAll
      <3>3. CASE WorkNext
        BY <2>9, <3>3 DEF Work, WorkNext, AcceptPending
      <3>4. CASE WorkDone
        BY <2>9, <3>4, TerminatedStatus DEF Work, WorkDone, TerminateCurrent
      <3> QED
        BY <2>9, <3>1, <3>2, <3>3, <3>4 DEF Work
    <2> QED
      BY <1>7, <2>1, <2>2, <2>3, <2>4, <2>5, <2>6, <2>7, <2>8, <2>9
         DEF WorkerStep, LoopStep
  <1> QED
    BY <1>1, <1>2, <1>3, <1>4, <1>5, <1>6, <1>7 DEF Next

\* The two hold in every state, with the invariant.
LEMMA NullAlways == Spec => []NullInv
  <1>1. Init => BtNeverGivenNull /\ GoalAtHand
    BY DEF Init, ServerInit, BtNeverGivenNull, GoalAtHand
  <1>2. IInv /\ IInv' /\ BtNeverGivenNull /\ GoalAtHand /\ [Next]_vars
            => (BtNeverGivenNull /\ GoalAtHand)'
    BY NullStep DEF NullInv
  <1>3. NullInv <=> IInv /\ BtNeverGivenNull /\ GoalAtHand
    BY DEF NullInv
  <1> QED
    BY <1>1, <1>2, <1>3, InductiveInvariant, PTL DEF Spec

\* Until the worker misses the deadline of deactivate(), the server never hands
\* the behaviour tree a null goal.
THEOREM NeverGivenNull == Spec => []BtNeverGivenNull
  BY NullAlways, PTL DEF NullInv

-----------------------------------------------------------------------------
(* A pending goal and the worker.                                          *)

\* Nothing of the goal the callback worked for is left when it returns.
CallbackEndsGoal == worker = "after" => ~Active(current)

\* After deactivate() gave up waiting, nothing is pending any more.
FailedIsEmpty == exec = "failed" => ~preempt

\* No step revives the goal of a callback that returned, or lets a goal in after
\* a failed deactivation.
LEMMA EndedStep ==
    IInv /\ CallbackEndsGoal /\ FailedIsEmpty /\ [Next]_vars
        => (CallbackEndsGoal /\ FailedIsEmpty)'
  <1> DEFINE Kept == (CallbackEndsGoal /\ FailedIsEmpty)'
  <1> SUFFICES ASSUME IInv, CallbackEndsGoal, FailedIsEmpty, [Next]_vars PROVE Kept
    OBVIOUS
  <1> USE GoalsAssumption
          DEF IInv, TypeOK, HandlesApart, CallbackEndsGoal, FailedIsEmpty, Active,
              Canceling, Handles, Status, Live, Over
  <1>1. CASE UNCHANGED vars
    BY <1>1 DEF vars, serverVars, btVars
  <1>2. ASSUME NEW g \in Goals, Request(g) PROVE Kept
    BY <1>2 DEF Request, RequestGoal, RefuseGoal, Ready
  <1>3. CASE Accepted
    <2>1. CASE QueueGoal
      BY <2>1, TerminatedStatus DEF QueueGoal
    <2>2. CASE StartGoal
      BY <2>2 DEF StartGoal
    <2> QED
      BY <1>3, <2>1, <2>2 DEF Accepted
  <1>4. CASE Cancel
    BY <1>4 DEF Cancel, MarkCanceling, RequestCancel, Ready
  <1>5. CASE OnActivate
    BY <1>5 DEF OnActivate, Activate, Ready
  <1>6. CASE OnDeactivate
    <2>1. CASE Deactivate \/ Deactivated
      BY <2>1 DEF Deactivate, Deactivated, Ready
    <2>2. CASE MissDeadline
      BY <2>2, TerminatedStatus DEF MissDeadline
    <2> QED
      BY <1>6, <2>1, <2>2 DEF OnDeactivate
  <1>7. CASE WorkerStep
    <2> USE DEF Goto, KeepServer, KeepThreads, serverVars, Crash
    <2>1. CASE ReceiveGoal \/ DeclineGoal \/ ReceiveNull
      BY <2>1 DEF ReceiveGoal, DeclineGoal, ReceiveNull
    <2>2. CASE Refuse
      BY <2>2, TerminatedStatus DEF Refuse, TerminateCurrent
    <2>3. CASE CheckActive \/ CheckCancel \/ CheckPreempt \/ GetPending
               \/ GetPendingNull \/ AcceptNull
      BY <2>3 DEF CheckActive, CheckCancel, CheckPreempt, GetPending,
                  GetPendingNull, AcceptNull, AfterLoop
    <2>4. CASE AcceptPreempt
      BY <2>4 DEF AcceptPreempt, AcceptPending, AfterLoop
    <2>5. CASE RejectPreempt
      BY <2>5 DEF RejectPreempt, TerminatePending, AfterLoop
    <2>6. ASSUME NEW r \in {"running", "success", "failure"}, Tick(r)
          PROVE  Kept
      BY <2>6 DEF Tick
    <2>7. CASE TickThrows
      BY <2>7 DEF TickThrows
    <2>8. CASE Finish
      <3>1. CASE SucceedCurrent
        BY <2>8, <3>1 DEF Finish, SucceedCurrent
      <3>2. CASE TerminateCurrent
        BY <2>8, <3>2, TerminatedStatus DEF Finish, TerminateCurrent
      <3>3. CASE TerminateAll
        BY <2>8, <3>3, TerminatedStatus DEF Finish, TerminateAll
      <3> QED
        BY <2>8, <3>1, <3>2, <3>3 DEF Finish, Outcome
    <2>9. CASE Work
      BY <2>9 DEF Work, WorkWhile, WorkReturn, WorkStop, WorkNext, WorkDone, TerminateAll,
         AcceptPending, TerminateCurrent
    <2> QED
      BY <1>7, <2>1, <2>2, <2>3, <2>4, <2>5, <2>6, <2>7, <2>8, <2>9
         DEF WorkerStep, LoopStep
  <1> QED
    BY <1>1, <1>2, <1>3, <1>4, <1>5, <1>6, <1>7 DEF Next

\* Both hold in every state.
LEMMA EndedAlways == Spec => [](CallbackEndsGoal /\ FailedIsEmpty)
  <1>1. Init => CallbackEndsGoal /\ FailedIsEmpty
    BY DEF Init, ServerInit, CallbackEndsGoal, FailedIsEmpty
  <1> QED
    BY <1>1, EndedStep, InductiveInvariant, PTL DEF Spec

\* The navigator's callback always ends the goal it is left with, whatever
\* preempted it: work() never comes to warn "Current goal was not completed
\* successfully" (executeCallback, work).
THEOREM CallbackAlwaysEndsGoal == Spec => []CallbackEndsGoal
  BY EndedAlways, PTL

\* The steps the worker is away from taking the pending goal over, or ending it.
Serving == Looping \cup {"refuse", "finish", "after"}
Distance(position) ==
    CASE position = "serverActive" -> 7
      [] position = "cancel" -> 6
      [] position = "tick" -> 5
      [] position = "preempt" -> 4
      [] position = "pendingGoal" -> 3
      [] position \in {"finish", "refuse"} -> 2
      [] OTHER -> 1

\* While a goal stays pending every step of the worker brings it nearer to that
\* goal, and nothing the executor does takes it away again.
PreemptNearer ==
    [][preempt /\ preempt' /\ worker \in Serving
       => /\ worker' \in Serving
          /\ IF WorkerStep THEN Distance(worker') < Distance(worker)
             ELSE worker' = worker]_vars

\* A pending goal waits for at most seven steps of the worker, one tick of the
\* tree among them, however often it is replaced by newer ones meanwhile
\* (executeCallback, onLoop, work).
THEOREM PreemptAlwaysNearer == Spec => PreemptNearer
  <1>1. NullInv /\ CallbackEndsGoal /\ FailedIsEmpty /\ [Next]_vars
            => [preempt /\ preempt' /\ worker \in Serving
                => /\ worker' \in Serving
                   /\ IF WorkerStep THEN Distance(worker') < Distance(worker)
                      ELSE worker' = worker]_vars
    <2> SUFFICES ASSUME NullInv, CallbackEndsGoal, FailedIsEmpty, [Next]_vars,
                        preempt, preempt', worker \in Serving
                 PROVE  /\ worker' \in Serving
                        /\ IF WorkerStep THEN Distance(worker') < Distance(worker)
                           ELSE worker' = worker
      OBVIOUS
    <2>1. Active(pending)
      BY DEF NullInv, BtNeverGivenNull, FailedIsEmpty
    <2>2. CASE WorkerStep
      <3> DEFINE Nearer == worker' \in Serving /\ Distance(worker') < Distance(worker)
      <3> SUFFICES Nearer
        BY <2>2
      <3> USE DEF Goto, Distance, Serving, Looping
      <3>1. CASE ReceiveGoal \/ DeclineGoal \/ ReceiveNull
        BY <3>1 DEF ReceiveGoal, DeclineGoal, ReceiveNull
      <3>2. CASE Refuse
        BY <3>2 DEF Refuse
      <3>3. CASE CheckActive
        BY <3>3 DEF CheckActive
      <3>4. CASE CheckCancel
        BY <3>4 DEF CheckCancel
      <3>5. CASE CheckPreempt
        BY <3>5 DEF CheckPreempt
      <3>6. CASE GetPending
        BY <3>6 DEF GetPending
      <3>7. CASE GetPendingNull \/ AcceptNull
        BY <2>1, <3>7 DEF GetPendingNull, AcceptNull
      <3>8. CASE AcceptPreempt \/ RejectPreempt
        BY <2>1, <3>8 DEF AcceptPreempt, AcceptPending, RejectPreempt, TerminatePending
      <3>9. ASSUME NEW r \in {"running", "success", "failure"}, Tick(r)
            PROVE  Nearer
        BY <3>9 DEF Tick
      <3>10. CASE TickThrows
        BY <3>10 DEF TickThrows
      <3>11. CASE Finish
        BY <3>11 DEF Finish
      <3>12. CASE Work
        BY <2>1, <3>12 DEF Work, WorkWhile, WorkReturn, WorkStop, WorkNext, WorkDone,
           TerminateAll, AcceptPending, CallbackEndsGoal
      <3> QED
        BY <2>2, <3>1, <3>2, <3>3, <3>4, <3>5, <3>6, <3>7, <3>8, <3>9, <3>10, <3>11, <3>12
           DEF WorkerStep, LoopStep
    <2>3. CASE ~WorkerStep
      <3>1. worker # "idle"
        BY DEF Serving, Looping
      <3>2. worker' = worker
        BY <2>3, <3>1 DEF Next, Request, RequestGoal, RefuseGoal, Accepted, QueueGoal,
           StartGoal, Running, Cancel, MarkCanceling, RequestCancel, OnActivate, Activate,
           OnDeactivate, Deactivate, Deactivated, MissDeadline, vars, serverVars
      <3> QED
        BY <2>3, <3>2
    <2> QED
      BY <2>2, <2>3
  <1> QED
    BY <1>1, NullAlways, EndedAlways, PTL DEF Spec, PreemptNearer

-----------------------------------------------------------------------------
(* BtActionServer implements ActionGoals: the slots, as far as they hold   *)
(* live goals, are its places, and every locked block is one of its        *)
(* actions or leaves the clients' view alone.                              *)

\* terminate() of a set of slots is giving up the live goals in them.
LEMMA TerminatedGivesUp ==
    ASSUME NEW hs, NEW gs,
           \A g \in Goals : g \in gs <=> g \in hs /\ Active(g)
    PROVE  Terminated(hs) = Promise!GivenUp(gs)
  BY GoalsAssumption DEF Terminated, Canceling, Active, Promise!GivenUp

\* A block that leaves the statuses, the slots and the goal being accepted as
\* they are is not seen by the clients.
LEMMA NothingSeen ==
    ASSUME UNCHANGED <<status, current, pending>>, UNCHANGED arrivingBar
    PROVE  UNCHANGED Promise!vars
  BY DEF Promise!vars, servingBar, waitingBar, Active

\* A block that terminates the goals of some slots and keeps the slots: the
\* clients see the live ones given up.
LEMMA TerminationSeen ==
    ASSUME IInv, NEW hs \in SUBSET {current, pending},
           status' = Terminated(hs), UNCHANGED <<current, pending>>,
           UNCHANGED arrivingBar
    PROVE  Promise!Next
  <1> DEFINE gs == {h \in hs : Active(h)}
  <1>1. gs \in SUBSET ({servingBar, waitingBar} \ {NoGoal})
    BY DEF servingBar, waitingBar, Active
  <1>2. status' = Promise!GivenUp(gs)
    BY TerminatedGivesUp
  <1>3. \A h \in Handles : Active(h)' <=> Active(h) /\ h \notin hs
    BY TerminatedStatus, GoalsAssumption DEF IInv, TypeOK, Handles, Active, Live
  <1>4. current \in Handles /\ pending \in Handles
    BY DEF IInv, TypeOK
  <1>5. servingBar' = IF servingBar \in gs THEN NoGoal ELSE servingBar
    BY <1>3, <1>4 DEF servingBar, Active
  <1>6. waitingBar' = IF waitingBar \in gs THEN NoGoal ELSE waitingBar
    BY <1>3, <1>4 DEF waitingBar, Active
  <1>7. Promise!GiveUp(gs)
    BY <1>2, <1>5, <1>6 DEF Promise!GiveUp
  <1> QED
    BY <1>1, <1>7 DEF Promise!Next

\* accept_pending_goal(): the goal that waits takes over.
LEMMA TakeOverSeen ==
    ASSUME IInv, AcceptPending, UNCHANGED arrivingBar
    PROVE  Promise!Next
  <1> USE GoalsAssumption DEF IInv, TypeOK, HandlesApart, Active, Handles, Live
  <1>1. waitingBar = pending /\ waitingBar # NoGoal
    BY DEF AcceptPending, waitingBar
  <1>2. status' = [g \in Goals |-> IF g = servingBar THEN "aborted" ELSE status[g]]
    BY DEF AcceptPending, servingBar
  <1>3. servingBar' = waitingBar
    BY <1>1 DEF AcceptPending, servingBar
  <1>4. waitingBar' = NoGoal
    BY DEF AcceptPending, waitingBar
  <1>5. Promise!TakeOver
    BY <1>1, <1>2, <1>3, <1>4 DEF Promise!TakeOver
  <1> QED
    BY <1>5 DEF Promise!Next

\* succeeded_current(): the goal served succeeds, if it is still live.
LEMMA SuccessSeen ==
    ASSUME IInv, SucceedCurrent, UNCHANGED arrivingBar
    PROVE  [Promise!Next]_(Promise!vars)
  <1> USE GoalsAssumption DEF IInv, TypeOK, HandlesApart, Active, Handles, Live
  <1>1. CASE Active(current)
    <2>1. servingBar = current /\ servingBar # NoGoal
      BY <1>1 DEF servingBar
    <2>2. status' = [status EXCEPT ![servingBar] = "succeeded"]
      BY <1>1, <2>1 DEF SucceedCurrent
    <2>3. servingBar' = NoGoal /\ UNCHANGED waitingBar
      BY <1>1, <2>1 DEF SucceedCurrent, servingBar, waitingBar
    <2>4. Promise!Succeed
      BY <2>1, <2>2, <2>3 DEF Promise!Succeed
    <2> QED
      BY <2>4 DEF Promise!Next
  <1>2. CASE ~Active(current)
    <2>1. UNCHANGED <<status, current, pending>>
      BY <1>2 DEF SucceedCurrent
    <2> QED
      BY <2>1, NothingSeen
  <1> QED
    BY <1>1, <1>2

\* What the executor does: a goal arrives, gets its place, is cancelled, or is
\* given up with the server.
LEMMA ExecutorSeen ==
    ASSUME IInv, IInv',
           (\E g \in Goals : Request(g)) \/ Accepted \/ Cancel \/ OnActivate
           \/ OnDeactivate
    PROVE  [Promise!Next]_(Promise!vars)
  <1> USE GoalsAssumption DEF IInv, TypeOK, HandlesApart, Handles
  <1>1. ASSUME NEW g \in Goals, RequestGoal(g) PROVE Promise!Next
    <2>1. g \notin {current, pending}
      BY <1>1 DEF RequestGoal, Live, Over
    <2>2. UNCHANGED <<servingBar, waitingBar>>
      BY <1>1, <2>1 DEF RequestGoal, servingBar, waitingBar, Active
    <2>3. arrivingBar = NoGoal /\ arrivingBar' = g
      BY <1>1 DEF RequestGoal, Ready, arrivingBar
    <2>4. Promise!Arrive(g)
      BY <1>1, <2>2, <2>3 DEF RequestGoal, Promise!Arrive
    <2> QED
      BY <2>4 DEF Promise!Next
  <1>2. ASSUME NEW g \in Goals, RefuseGoal(g) PROVE Promise!Next
    <2>1. g \notin {current, pending}
      BY <1>2 DEF RefuseGoal, Live, Over
    <2>2. UNCHANGED <<servingBar, waitingBar, arrivingBar>>
      BY <1>2, <2>1 DEF RefuseGoal, servingBar, waitingBar, arrivingBar, Active
    <2>3. Promise!Refuse(g)
      BY <1>2, <2>2 DEF RefuseGoal, Promise!Refuse
    <2> QED
      BY <2>3 DEF Promise!Next
  <1>3. ASSUME QueueGoal PROVE Promise!Next
    <2>1. arrivingBar = held /\ held # NoGoal /\ arrivingBar' = NoGoal
      BY <1>3 DEF QueueGoal, arrivingBar
    <2>2. status' = Promise!GivenUp({waitingBar})
      BY <1>3, TerminatedGivesUp DEF QueueGoal, waitingBar, Active
    <2>3. status'[held] = status[held] /\ Active(held)
      BY <1>3, TerminatedStatus DEF QueueGoal
    <2>4. waitingBar' = held
      BY <1>3, <2>3 DEF QueueGoal, waitingBar, Active
    <2>5. UNCHANGED servingBar
      BY <1>3, TerminatedStatus DEF QueueGoal, servingBar, Active
    <2>6. Promise!Queue
      BY <2>1, <2>2, <2>4, <2>5 DEF Promise!Queue
    <2> QED
      BY <2>6 DEF Promise!Next
  <1>4. ASSUME StartGoal PROVE Promise!Next
    <2>1. arrivingBar = held /\ held # NoGoal /\ arrivingBar' = NoGoal
      BY <1>4 DEF StartGoal, arrivingBar
    <2>2. servingBar = NoGoal
      BY <1>4 DEF StartGoal, servingBar
    <2>3. status' = Promise!GivenUp({waitingBar})
      BY <1>4, TerminatedGivesUp DEF StartGoal, waitingBar, Active
    <2>4. status'[held] = status[held] /\ Active(held)
      BY <1>4, TerminatedStatus DEF StartGoal
    <2>5. servingBar' = held
      BY <1>4, <2>4 DEF StartGoal, servingBar, Active
    <2>6. waitingBar' = NoGoal
      BY <1>4, TerminatedStatus DEF StartGoal, waitingBar, Active, Live
    <2>7. Promise!Start
      BY <2>1, <2>2, <2>3, <2>5, <2>6 DEF Promise!Start
    <2> QED
      BY <2>7 DEF Promise!Next
  <1>5. ASSUME MarkCanceling PROVE [Promise!Next]_(Promise!vars)
    <2>1. UNCHANGED arrivingBar
      BY <1>5 DEF MarkCanceling, arrivingBar
    <2>2. CASE held \in Goals /\ status[held] = "executing"
      <3>1. held \in {servingBar, waitingBar}
        BY <1>5, <2>2 DEF MarkCanceling, NoGoalLost, servingBar, waitingBar, Active, Live
      <3>2. status' = [status EXCEPT ![held] = "canceling"]
        BY <1>5, <2>2 DEF MarkCanceling
      <3>3. UNCHANGED <<servingBar, waitingBar>>
        BY <1>5, <3>2, <2>2 DEF MarkCanceling, servingBar, waitingBar, Active, Live
      <3>4. Promise!Cancel(held)
        BY <2>1, <2>2, <3>1, <3>2, <3>3 DEF Promise!Cancel
      <3> QED
        BY <2>2, <3>4 DEF Promise!Next
    <2>3. CASE ~(held \in Goals /\ status[held] = "executing")
      <3>1. UNCHANGED <<status, current, pending>>
        BY <1>5, <2>3 DEF MarkCanceling
      <3> QED
        BY <2>1, <3>1, NothingSeen
    <2> QED
      BY <2>2, <2>3
  <1>6. ASSUME (\E g \in Goals : RequestCancel(g)) \/ Activate \/ Deactivate \/ Deactivated
        PROVE  UNCHANGED Promise!vars
    <2>1. UNCHANGED arrivingBar
      BY <1>6 DEF RequestCancel, Activate, Deactivate, Deactivated, Ready, arrivingBar
    <2> QED
      BY <1>6, <2>1, NothingSeen DEF RequestCancel, Activate, Deactivate, Deactivated
  <1>7. ASSUME MissDeadline PROVE Promise!Next
    <2>1. UNCHANGED arrivingBar
      BY <1>7 DEF MissDeadline, arrivingBar
    <2> QED
      BY <1>7, <2>1, TerminationSeen DEF MissDeadline
  <1> QED
    BY <1>1, <1>2, <1>3, <1>4, <1>5, <1>6, <1>7
       DEF Request, Accepted, Cancel, OnActivate, OnDeactivate

\* What the worker does: it ends goals, or a goal takes over.
LEMMA WorkerSeen ==
    ASSUME IInv, WorkerStep
    PROVE  [Promise!Next]_(Promise!vars)
  <1> USE DEF KeepServer, KeepThreads, serverVars, Crash
  <1>1. UNCHANGED arrivingBar
    BY DEF WorkerStep, LoopStep, ReceiveGoal, DeclineGoal, ReceiveNull, Refuse,
           CheckActive, CheckCancel, CheckPreempt, GetPending, GetPendingNull,
           AcceptPreempt, AcceptNull, RejectPreempt, Tick, TickThrows, Finish, Work,
           WorkWhile, WorkStop, WorkNext, WorkDone, WorkReturn, arrivingBar
  <1>2. CASE ReceiveGoal \/ DeclineGoal \/ ReceiveNull \/ CheckActive \/ CheckCancel
             \/ CheckPreempt \/ GetPending \/ GetPendingNull \/ AcceptNull \/ TickThrows
             \/ (\E r \in {"running", "success", "failure"} : Tick(r))
             \/ WorkWhile \/ WorkReturn
    BY <1>1, <1>2, NothingSeen
       DEF ReceiveGoal, DeclineGoal, ReceiveNull, CheckActive, CheckCancel, CheckPreempt,
           GetPending, GetPendingNull, AcceptNull, Tick, TickThrows, WorkWhile, WorkReturn
  <1>3. CASE TerminateCurrent
    BY <1>1, <1>3, TerminationSeen DEF TerminateCurrent
  <1>4. CASE TerminatePending
    BY <1>1, <1>4, TerminationSeen DEF TerminatePending
  <1>5. CASE TerminateAll
    BY <1>1, <1>5, TerminationSeen DEF TerminateAll
  <1>6. CASE AcceptPending
    BY <1>1, <1>6, TakeOverSeen
  <1>7. CASE SucceedCurrent
    BY <1>1, <1>7, SuccessSeen
  <1> QED
    BY <1>2, <1>3, <1>4, <1>5, <1>6, <1>7
       DEF WorkerStep, LoopStep, Refuse, AcceptPreempt, RejectPreempt, Finish, Outcome,
           Work, WorkStop, WorkNext, WorkDone

\* Under every interleaving of the executor with the worker, and for every
\* number of goals, clients see goals served one at a time, the newest one
\* waiting, each ended once and for a reason (simple_action_server.hpp).
THEOREM AlwaysServedInTurn == Spec => GoalsServedInTurn
  <1>1. Init => Promise!Init
    BY DEF Init, ServerInit, Promise!Init, servingBar, waitingBar, arrivingBar, Active
  <1>2. IInv /\ IInv' /\ [Next]_vars => [Promise!Next]_(Promise!vars)
    <2> SUFFICES ASSUME IInv, IInv', [Next]_vars
                 PROVE  [Promise!Next]_(Promise!vars)
      OBVIOUS
    <2>1. CASE UNCHANGED vars
      BY <2>1, NothingSeen DEF vars, serverVars, arrivingBar
    <2>2. CASE WorkerStep
      BY <2>2, WorkerSeen
    <2>3. CASE Next /\ ~WorkerStep
      BY <2>3, ExecutorSeen DEF Next
    <2> QED
      BY <2>1, <2>2, <2>3
  <1> QED
    BY <1>1, <1>2, InductiveInvariant, PTL DEF Spec, GoalsServedInTurn, Promise!Spec

\* What the clients rely on includes that no goal is dropped: one that was
\* accepted and has not ended is served, waits or is about to get its place.
THEOREM PromiseKeepsGoals ==
    Promise!Spec => [](\A g \in Goals : status[g] \in Live
                                           => g \in {servingBar, waitingBar, arrivingBar})
  <1> DEFINE Typed == status \in [Goals -> Status]
             Placed == \A g \in Goals : status[g] \in Live
                                           => g \in {servingBar, waitingBar, arrivingBar}
  <1> USE GoalsAssumption DEF Status, Live, Over, Promise!GivenUp
  <1>1. Promise!Init => Typed /\ Placed
    BY DEF Promise!Init
  <1>2. Typed /\ Placed /\ [Promise!Next]_(Promise!vars) => (Typed /\ Placed)'
    <2> SUFFICES ASSUME Typed, Placed, [Promise!Next]_(Promise!vars)
                 PROVE  Typed' /\ Placed'
      OBVIOUS
    <2>1. CASE UNCHANGED Promise!vars
      BY <2>1 DEF Promise!vars
    <2>2. ASSUME NEW g \in Goals, Promise!Arrive(g) \/ Promise!Refuse(g) \/ Promise!Cancel(g)
          PROVE  Typed' /\ Placed'
      BY <2>2 DEF Promise!Arrive, Promise!Refuse, Promise!Cancel
    <2>3. CASE Promise!Start
      BY <2>3 DEF Promise!Start
    <2>4. CASE Promise!Queue
      BY <2>4 DEF Promise!Queue
    <2>5. CASE Promise!TakeOver
      BY <2>5 DEF Promise!TakeOver
    <2>6. CASE Promise!Succeed
      BY <2>6 DEF Promise!Succeed
    <2>7. ASSUME NEW gs \in SUBSET ({servingBar, waitingBar} \ {NoGoal}), Promise!GiveUp(gs)
          PROVE  Typed' /\ Placed'
      BY <2>7 DEF Promise!GiveUp
    <2> QED
      BY <2>1, <2>2, <2>3, <2>4, <2>5, <2>6, <2>7 DEF Promise!Next
  <1> QED
    BY <1>1, <1>2, PTL DEF Promise!Spec

Goal == INSTANCE GoalStates

\* Every goal moves as the goals of any ROS 2 action do: it is accepted or
\* rejected once, asked to be cancelled only while it runs, ends once and stays
\* ended, canceled only if that was asked (simple_action_server.hpp, terminate
\* and every caller of it).
LivesKept ==
    [][\A g \in Goals : status'[g] # status[g] => Goal!Move(status[g], status'[g])]_vars

\* The server is one of those that ActionCall, and so a tree that uses it, is
\* made for.
THEOREM AlwaysLivesKept == Spec => LivesKept
  <1>1. IInv /\ IInv' /\ [Next]_vars /\ [Promise!Next]_(Promise!vars)
            => [\A g \in Goals : status'[g] # status[g]
                                    => Goal!Move(status[g], status'[g])]_vars
    <2> DEFINE Moves == \A g \in Goals : status'[g] # status[g]
                                            => Goal!Move(status[g], status'[g])
    <2> SUFFICES ASSUME IInv, [Promise!Next]_(Promise!vars) PROVE Moves
      OBVIOUS
    <2>1. /\ status \in [Goals -> Status]
          /\ \A g \in {servingBar, waitingBar} : g # NoGoal => g \in Goals /\ status[g] \in Live
      BY DEF IInv, TypeOK, Handles, servingBar, waitingBar, Active
    <2> USE GoalsAssumption DEF Status, Live, Over, Promise!GivenUp, Goal!Move, Goal!Over
    <2>2. CASE UNCHANGED Promise!vars
      BY <2>2 DEF Promise!vars
    <2>3. ASSUME NEW g \in Goals, Promise!Arrive(g) \/ Promise!Refuse(g) \/ Promise!Cancel(g)
          PROVE  Moves
      BY <2>1, <2>3 DEF Promise!Arrive, Promise!Refuse, Promise!Cancel
    <2>4. CASE Promise!Start \/ Promise!Queue
      BY <2>1, <2>4 DEF Promise!Start, Promise!Queue
    <2>5. CASE Promise!TakeOver
      BY <2>1, <2>5 DEF Promise!TakeOver
    <2>6. CASE Promise!Succeed
      BY <2>1, <2>6 DEF Promise!Succeed
    <2>7. ASSUME NEW gs \in SUBSET ({servingBar, waitingBar} \ {NoGoal}), Promise!GiveUp(gs)
          PROVE  Moves
      BY <2>1, <2>7 DEF Promise!GiveUp
    <2> QED
      BY <2>2, <2>3, <2>4, <2>5, <2>6, <2>7 DEF Promise!Next
  <1> QED
    BY <1>1, InductiveInvariant, AlwaysServedInTurn, PTL
       DEF Spec, LivesKept, GoalsServedInTurn, Promise!Spec

-----------------------------------------------------------------------------
(* The muxer that the workers of several such servers share.               *)

CONSTANTS Navigators, Nobody

VARIABLES at, owner

Muxer == INSTANCE NavigatorMuxer

\* The state has its type (the positions of the workers and the name the muxer
\* holds).
LEMMA MuxerTypes == Muxer!Spec => []Muxer!TypeOK
  <1>1. Muxer!Init => Muxer!TypeOK
    BY DEF Muxer!Init, Muxer!TypeOK, Muxer!Positions
  <1>2. Muxer!TypeOK /\ [Muxer!Next]_(Muxer!vars) => Muxer!TypeOK'
    BY DEF Muxer!TypeOK, Muxer!Next, Muxer!vars, Muxer!TakeGoal, Muxer!Ask, Muxer!Decline,
           Muxer!StartNavigating, Muxer!StopNavigating, Muxer!Goto, Muxer!Positions
  <1> QED
    BY <1>1, <1>2, PTL DEF Muxer!Spec

\* Whatever the number of navigators and however they interleave, the muxer is
\* held by a navigating one or by nobody (startNavigating, stopNavigating).
THEOREM NeverLeftLocked == Muxer!Spec => []Muxer!OwnerNavigates
  <1>1. Muxer!Init => Muxer!OwnerNavigates
    BY DEF Muxer!Init, Muxer!OwnerNavigates
  <1>2. Muxer!TypeOK /\ Muxer!OwnerNavigates /\ [Muxer!Next]_(Muxer!vars) => Muxer!OwnerNavigates'
    <2> SUFFICES ASSUME Muxer!TypeOK, Muxer!OwnerNavigates, [Muxer!Next]_(Muxer!vars)
                 PROVE  Muxer!OwnerNavigates'
      OBVIOUS
    <2> USE DEF Muxer!TypeOK, Muxer!OwnerNavigates, Muxer!Goto
    <2>1. CASE UNCHANGED Muxer!vars
      BY <2>1 DEF Muxer!vars
    <2>2. ASSUME NEW n \in Navigators, Muxer!TakeGoal(n) \/ Muxer!Ask(n) \/ Muxer!Decline(n)
          PROVE  Muxer!OwnerNavigates'
      BY <2>2 DEF Muxer!TakeGoal, Muxer!Ask, Muxer!Decline
    <2>3. ASSUME NEW n \in Navigators, Muxer!StartNavigating(n)
          PROVE  Muxer!OwnerNavigates'
      BY <2>3 DEF Muxer!StartNavigating
    <2>4. ASSUME NEW n \in Navigators, Muxer!StopNavigating(n)
          PROVE  Muxer!OwnerNavigates'
      BY <2>4 DEF Muxer!StopNavigating
    <2> QED
      BY <2>1, <2>2, <2>3, <2>4 DEF Muxer!Next
  <1> QED
    BY <1>1, <1>2, MuxerTypes, PTL DEF Muxer!Spec
=============================================================================
