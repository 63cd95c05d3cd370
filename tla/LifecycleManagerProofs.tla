----------------------- MODULE LifecycleManagerProofs -----------------------
(***************************************************************************)
(* Proofs about LifecycleManager, for any number of servers and crashes.   *)
(* ActiveIsWatched is not inductive: that a successful startup leaves      *)
(* every server watched rests on the servers it has passed being watched   *)
(* (InOrder) and on "activate" being its last transition (Ascending).      *)
(***************************************************************************)
EXTENDS LifecycleManager, TLAPS

\* A command under way while is_active answers yes is one that only brings servers up, and
\* such a command ends with the activation (startup, resume); a hard reset only goes down.
Ascending ==
    Working =>
        /\ active => kind \in Ups
        /\ kind \in Ups => left \in {<<"configure", "activate">>, <<"activate">>}
        /\ kind = "hard" => left \in {<<"deactivate", "cleanup">>, <<"cleanup">>}

IInv == TypeOK /\ Ascending /\ ActiveIsWatched /\ InOrder

-----------------------------------------------------------------------------
\* The list of transitions of every command (startup, resume, pause, shutdown, reset).
LEMMA PlanType ==
    ASSUME NEW k \in Kinds
    PROVE  /\ Plan[k] \in Seq(Transitions) /\ Plan[k] # <<>>
           /\ k \in Ups => Plan[k] \in {<<"configure", "activate">>, <<"activate">>}
           /\ k = "hard" => Plan[k] = <<"deactivate", "cleanup">>
<1>1. /\ <<"configure", "activate">> \in Seq(Transitions)
      /\ <<"activate">> \in Seq(Transitions)
      /\ <<"deactivate">> \in Seq(Transitions)
      /\ <<"deactivate", "cleanup">> \in Seq(Transitions)
      /\ <<"deactivate", "cleanup", "finalize">> \in Seq(Transitions)
  BY DEF Transitions
<1>2. CASE k = "startup" \/ k = "recover"
  <2>1. Plan[k] = <<"configure", "activate">>
    BY <1>2 DEF Plan
  <2> QED
    BY <1>1, <1>2, <2>1
<1>3. CASE k = "resume"
  <2>1. Plan[k] = <<"activate">>
    BY <1>3 DEF Plan
  <2> QED
    BY <1>1, <1>3, <2>1
<1>4. CASE k = "pause"
  <2>1. Plan[k] = <<"deactivate">>
    BY <1>4 DEF Plan
  <2> QED
    BY <1>1, <1>4, <2>1 DEF Ups
<1>5. CASE k = "shutdown"
  <2>1. Plan[k] = <<"deactivate", "cleanup", "finalize">>
    BY <1>5 DEF Plan
  <2> QED
    BY <1>1, <1>5, <2>1 DEF Ups
<1>6. CASE k = "reset" \/ k = "hard"
  <2>1. Plan[k] = <<"deactivate", "cleanup">>
    BY <1>6 DEF Plan
  <2> QED
    BY <1>1, <1>6, <2>1 DEF Ups
<1> QED
  BY <1>2, <1>3, <1>4, <1>5, <1>6 DEF Kinds, Ups, Downs

\* A transition begins at the first or the last server (changeStateForAllNodes).
LEMMA FirstType == \A t \in Transitions : First(t) \in Nodes /\ (Upward(t) => First(t) = 1)
                                          /\ (~Upward(t) => First(t) = N)
BY ServersAssumption DEF First, Nodes

\* A command or callback begins with its whole list, at the first or the last server.
LEMMA Begins ==
    ASSUME NEW k \in Kinds, Begin(k)
    PROVE  /\ step' = "change" /\ kind' = k /\ left' = Plan[k]
           /\ left' \in Seq(Transitions) /\ left' # <<>> /\ at' \in Nodes
           /\ Head(left') \in Transitions /\ at' = First(Head(left'))
<1>1. Plan[k] \in Seq(Transitions) /\ Plan[k] # <<>>
  BY PlanType
<1>2. Head(Plan[k]) \in Transitions
  BY <1>1
<1> QED
  BY <1>1, <1>2, FirstType DEF Begin

\* What the end of one transition of all servers leaves behind.
LEMMA EndsStep ==
    ASSUME TypeOK, Working, NEW ok \in BOOLEAN, Ends(ok)
    PROVE  \/ /\ step' = "change" /\ left' = Tail(left) /\ left' # <<>>
              /\ left' \in Seq(Transitions) /\ Head(left') \in Transitions
              /\ at' = First(Head(left')) /\ at' \in Nodes
              /\ UNCHANGED <<kind, active, due, clients, respawn>>
           \/ /\ Finish(ok) /\ left' \in Seq(Transitions)
              /\ ok => Tail(left) = <<>>
<1>1. left \in Seq(Transitions) /\ left # <<>>
  BY DEF TypeOK
<1>2. Tail(left) \in Seq(Transitions)
  BY <1>1
<1>3. CASE Tail(left) # <<>> /\ (ok \/ kind = "shutdown")
  <2>1. /\ step' = "change" /\ left' = Tail(left) /\ at' = First(left'[1])
        /\ UNCHANGED <<kind, active, due, clients, respawn>>
    BY <1>3 DEF Ends
  <2>2. left'[1] = Head(left') /\ Head(left') \in Transitions
    BY <1>2, <1>3, <2>1
  <2> QED
    BY <1>2, <1>3, <2>1, <2>2, FirstType
<1>4. CASE ~(Tail(left) # <<>> /\ (ok \/ kind = "shutdown"))
  <2>1. Finish(ok)
    BY <1>4 DEF Ends
  <2>2. left' \in Seq(Transitions)
    BY <2>1 DEF Finish
  <2> QED
    BY <1>4, <2>1, <2>2
<1> QED
  BY <1>3, <1>4

\* Going on with the next server, or ending with the last one.
LEMMA AdvanceStep ==
    ASSUME TypeOK, Working, Advance
    PROVE  \/ Ends(TRUE) /\ at = Last(Head(left))
           \/ /\ step' = "change" /\ at' \in Nodes
              /\ at' = IF Upward(Head(left)) THEN at + 1 ELSE at - 1
              /\ UNCHANGED <<kind, left, active, due, clients, respawn>>
<1>1. CASE at = Last(Head(left))
  BY <1>1 DEF Advance
<1>2. CASE at # Last(Head(left))
  <2>1. /\ step' = "change"
        /\ at' = IF Upward(Head(left)) THEN at + 1 ELSE at - 1
        /\ UNCHANGED <<kind, left, active, due, clients, respawn>>
    BY <1>2 DEF Advance
  <2>2. at' \in Nodes
    BY <1>2, <2>1, ServersAssumption DEF Last, Nodes, TypeOK
  <2> QED
    BY <2>1, <2>2
<1> QED
  BY <1>1, <1>2

\* What Advance and Fails keep: types of the position, and the system's flags.
Moved == /\ step' \in {"idle", "change"} /\ kind' = kind
         /\ left' \in Seq(Transitions) /\ at' \in Nodes
         /\ active' \in BOOLEAN /\ due' \in BOOLEAN /\ (due' => active')
         /\ clients' \in BOOLEAN
         /\ respawn' \in {"off", "first", "later"}
         /\ step' = "change" => left' # <<>>

\* The end of a command, and what it does to the timer, the bonds and the call under way.
LEMMA EndsMoved ==
    ASSUME TypeOK, Working, NEW ok \in BOOLEAN, Ends(ok)
    PROVE  Moved
BY EndsStep DEF Moved, Finish, TypeOK

\* The step to the next server, or to the end of the command.
LEMMA AdvanceMoved ==
    ASSUME TypeOK, Working, Advance
    PROVE  Moved
<1>1. CASE Ends(TRUE)
  BY <1>1, EndsMoved
<1>2. CASE /\ step' = "change" /\ at' \in Nodes
           /\ UNCHANGED <<kind, left, active, due, clients, respawn>>
  BY <1>2 DEF Moved, TypeOK
<1> QED
  BY <1>1, <1>2, AdvanceStep

\* A failed call ends the command, or goes on when the shutdown disregards it.
LEMMA FailsMoved ==
    ASSUME TypeOK, Working, Fails
    PROVE  Moved
BY AdvanceMoved, EndsMoved DEF Fails

Bonds == [Nodes -> {"none", "up", "lost", "broken"}]

\* What losing, breaking and clearing make of the bonds are bonds.
LEMMA BondsType == TypeOK => /\ \A n \in Nodes : Lost(n) \in Bonds
                             /\ \A n \in Nodes, b \in {"none", "up", "lost", "broken"} :
                                   [bond EXCEPT ![n] = b] \in Bonds
                             /\ \A f \in Bonds : Clear(f) \in Bonds
BY DEF TypeOK, Bonds, Lost, Clear

-----------------------------------------------------------------------------
\* One step of any action keeps the types.
LEMMA TypeStep == TypeOK /\ [Next]_vars => TypeOK'
<1> SUFFICES ASSUME TypeOK, [Next]_vars
             PROVE  TypeOK'
  OBVIOUS
<1> USE DEF Bonds
<1>1. CASE Change
  <2>1. node' \in [Nodes -> States]
    <3>1. From[Head(left)] \in States /\ Target[Head(left)] \in States
      <4>1. Head(left) \in Transitions
        BY <1>1 DEF Change, TypeOK, Working
      <4> QED
        BY <4>1 DEF Transitions, From, Target, States
    <3> QED
      BY <1>1, <3>1 DEF Change, TypeOK, States
  <2>2. bond' \in Bonds
    BY <1>1, BondsType DEF Change, TypeOK
  <2> QED
    BY <1>1, <2>1, <2>2 DEF Change, TypeOK, serves, Working
<1>2. CASE Throws
  <2>1. Moved
    BY <1>2, EndsMoved DEF Throws, Working
  <2> QED
    BY <1>2, <2>1, BondsType DEF Throws, Moved, TypeOK, Working
<1>3. CASE Check
  <2>1. step \in {"change", "check"} /\ UNCHANGED <<node, crashes>>
    BY <1>3 DEF Check
  <2>2. Moved /\ bond' \in Bonds
    <3>1. CASE Fails /\ bond' = Clear(bond)
      BY <2>1, <3>1, FailsMoved, BondsType DEF TypeOK, Working
    <3>2. CASE Activated
      BY <2>1, <3>2, FailsMoved, AdvanceMoved, BondsType DEF Activated, TypeOK, Working
    <3>3. CASE Advance /\ bond' = Clear(IF Head(left) = "deactivate"
                                         THEN [bond EXCEPT ![at] = "none"] ELSE bond)
      BY <2>1, <3>3, AdvanceMoved, BondsType DEF TypeOK, Working
    <3> QED
      BY <1>3, <3>1, <3>2, <3>3 DEF Check
  <2> QED
    BY <2>1, <2>2 DEF Moved, TypeOK, Working
<1>4. CASE NullClient \/ Call
  BY <1>4 DEF NullClient, Call, TypeOK, Working, serves
<1>5. CASE BondTimerElapses
  BY <1>5 DEF BondTimerElapses, TypeOK, Working, serves
<1>6. ASSUME NEW k \in Commands, Command(k)
      PROVE  TypeOK'
  <2>1. k \in Kinds /\ Begin(k)
    BY <1>6 DEF Commands, Kinds, Ups, Downs, Command
  <2>2. /\ active' \in BOOLEAN /\ due' \in BOOLEAN /\ (due' => active')
        /\ UNCHANGED <<node, bond, respawn, clients, crashes>>
    BY <1>6 DEF Command, TypeOK
  <2> QED
    BY <2>1, <2>2, Begins DEF TypeOK
<1>7. CASE CheckBondConnections
  <2>1. "hard" \in Kinds /\ UNCHANGED <<node, bond, respawn, clients, crashes>> /\ due' = FALSE
    BY <1>7 DEF CheckBondConnections, Kinds
  <2>2. CASE Begin("hard") /\ active' = FALSE
    BY <2>1, <2>2, Begins DEF TypeOK, Working
  <2>3. CASE UNCHANGED <<active, step, serves>>
    BY <2>1, <2>3 DEF TypeOK, Working, serves
  <2> QED
    BY <1>7, <2>2, <2>3 DEF CheckBondConnections
<1>8. CASE CheckBondRespawnConnection
  <2>1. CASE UNCHANGED serves
    BY <1>8, <2>1, Begins DEF CheckBondRespawnConnection, TypeOK, serves, Kinds, Ups, Working
  <2>2. CASE Begin("recover")
    <3>1. "recover" \in Kinds
      BY DEF Kinds, Ups
    <3>2. /\ respawn' \in {"off", "first", "later"}
          /\ UNCHANGED <<node, bond, active, due, clients, crashes>>
      BY <1>8 DEF CheckBondRespawnConnection, TypeOK
    <3> QED
      BY <2>2, <3>1, <3>2, Begins DEF TypeOK
  <2> QED
    BY <1>8, <2>1, <2>2 DEF CheckBondRespawnConnection
<1>9. ASSUME NEW n \in Nodes, Crash(n) \/ Respawn(n) \/ BondBreaks(n)
      PROVE  TypeOK'
  <2>1. CASE Crash(n)
    BY <1>9, <2>1, BondsType, CrashesAssumption DEF Crash, TypeOK, States, serves, Working
  <2>2. CASE Respawn(n)
    BY <1>9, <2>2 DEF Respawn, TypeOK, States, serves, Working
  <2>3. CASE BondBreaks(n)
    BY <1>9, <2>3, BondsType DEF BondBreaks, TypeOK, serves, Working
  <2> QED
    BY <1>9, <2>1, <2>2, <2>3
<1>10. CASE UNCHANGED vars
  BY <1>10 DEF vars, serves, TypeOK, Working
<1> QED
  BY <1>1, <1>2, <1>3, <1>4, <1>5, <1>6, <1>7, <1>8, <1>9, <1>10 DEF Next, Serve

\* The types hold before the first command.
LEMMA TypeInit == Init => TypeOK
<1>1. <<>> \in Seq(Transitions)
  OBVIOUS
<1>2. 1 \in Nodes /\ 0 \in 0 .. MaxCrashes /\ "startup" \in Kinds
  BY ServersAssumption, CrashesAssumption DEF Nodes, Kinds, Ups
<1> QED
  BY <1>1, <1>2 DEF Init, TypeOK, States, Working

\* The manager's state has its type, for any number of servers.
THEOREM TypeCorrect == Spec => []TypeOK
<1>1. Init => TypeOK
  BY TypeInit
<1>2. TypeOK /\ [Next]_vars => TypeOK'
  BY TypeStep
<1> QED
  BY <1>1, <1>2, PTL DEF Spec

-----------------------------------------------------------------------------
(* ActiveIsWatched and InOrder.                                            *)

\* The transitions of startup, resume and the hard reset, taken apart (Plan).
LEMMA Tails ==
    /\ Tail(<<"configure", "activate">>) = <<"activate">> /\ Tail(<<"activate">>) = <<>>
    /\ Tail(<<"deactivate", "cleanup">>) = <<"cleanup">> /\ Tail(<<"cleanup">>) = <<>>
    /\ Head(<<"configure", "activate">>) = "configure" /\ Head(<<"activate">>) = "activate"
    /\ Head(<<"deactivate", "cleanup">>) = "deactivate" /\ Head(<<"cleanup">>) = "cleanup"
    /\ <<"activate">> # <<>> /\ <<"cleanup">> # <<>>
<1>1. Tail(<<"configure", "activate">>) = <<"activate">> /\ Tail(<<"activate">>) = <<>>
  OBVIOUS
<1>2. Tail(<<"deactivate", "cleanup">>) = <<"cleanup">> /\ Tail(<<"cleanup">>) = <<>>
  OBVIOUS
<1>3. Head(<<"configure", "activate">>) = "configure" /\ Head(<<"activate">>) = "activate"
  OBVIOUS
<1>4. Head(<<"deactivate", "cleanup">>) = "deactivate" /\ Head(<<"cleanup">>) = "cleanup"
  OBVIOUS
<1>5. <<"activate">> # <<>> /\ <<"cleanup">> # <<>>
  OBVIOUS
<1> QED
  BY <1>1, <1>2, <1>3, <1>4, <1>5

\* The end of a transition keeps the invariant, if it leaves a system in service watched.
LEMMA EndsInv ==
    ASSUME IInv, Working, NEW ok \in BOOLEAN, Ends(ok),
           active => \A n \in Nodes : Watched(n)',
           ok /\ kind \in Ups /\ Tail(left) = <<>> => \A n \in Nodes : Watched(n)'
    PROVE  Ascending' /\ ActiveIsWatched' /\ InOrder'
<1>1. TypeOK /\ Ascending
  BY DEF IInv
<1>2. CASE /\ step' = "change" /\ left' = Tail(left) /\ left' # <<>>
           /\ Head(left') \in Transitions
           /\ at' = First(Head(left'))
           /\ UNCHANGED <<kind, active>>
  <2>1. Ascending'
    <3>1. /\ active => kind \in Ups
          /\ kind \in Ups => left \in {<<"configure", "activate">>, <<"activate">>}
          /\ kind = "hard" => left \in {<<"deactivate", "cleanup">>, <<"cleanup">>}
      BY <1>1 DEF Ascending
    <3>2. kind \in Ups => left' = <<"activate">>
      BY <1>2, <3>1, Tails
    <3>3. kind = "hard" => left' = <<"cleanup">>
      BY <1>2, <3>1, Tails
    <3> QED
      BY <1>2, <3>1, <3>2, <3>3 DEF Ascending
  <2>2. ActiveIsWatched'
    BY <1>2 DEF ActiveIsWatched
  <2>3. /\ Head(left') = "activate" => at' = 1
        /\ Head(left') = "deactivate" => at' = N
    BY <1>2, FirstType DEF Upward
  <2>4. InOrder'
    BY <1>2, <2>3, ServersAssumption DEF InOrder, Nodes
  <2> QED
    BY <2>1, <2>2, <2>4
<1>3. CASE Finish(ok) /\ (ok => Tail(left) = <<>>)
  <2>1. step' = "idle" /\ (active' => active \/ (ok /\ kind \in Ups))
    BY <1>3 DEF Finish
  <2>2. ActiveIsWatched'
    BY <1>3, <2>1 DEF ActiveIsWatched
  <2> QED
    BY <2>1, <2>2 DEF Ascending, InOrder, Working
<1> QED
  BY <1>1, <1>2, <1>3, EndsStep

\* So does going on with the next server, if the one it was the turn of is dealt with.
LEMMA AdvanceInv ==
    ASSUME IInv, Working, Advance,
           active => \A n \in Nodes : Watched(n)',
           Head(left) = "activate" => \A n \in Nodes : n <= at => Watched(n)',
           Head(left) = "deactivate" /\ kind \in {"reset", "pause"} =>
               \A n \in Nodes : n >= at => node'[n] # "active"
    PROVE  Ascending' /\ ActiveIsWatched' /\ InOrder'
<1>1. TypeOK /\ Ascending
  BY DEF IInv
<1>2. CASE Ends(TRUE) /\ at = Last(Head(left))
  <2>1. ASSUME kind \in Ups, Tail(left) = <<>>
        PROVE  \A n \in Nodes : Watched(n)'
    <3>1. Head(left) = "activate"
      <4>1. left \in {<<"configure", "activate">>, <<"activate">>}
        BY <1>1, <2>1 DEF Ascending
      <4> QED
        BY <4>1, <2>1, Tails
    <3>2. \A n \in Nodes : n <= at
      BY <1>2, <3>1, ServersAssumption DEF Last, Upward, Nodes
    <3> QED
      BY <3>1, <3>2
  <2> QED
    BY <1>2, <2>1, EndsInv
<1>3. CASE /\ step' = "change"
           /\ at' = IF Upward(Head(left)) THEN at + 1 ELSE at - 1
           /\ UNCHANGED <<kind, left, active>>
  <2>1. Ascending' /\ ActiveIsWatched'
    BY <1>1, <1>3 DEF Ascending, ActiveIsWatched
  <2>2. /\ Head(left) = "activate" => at' = at + 1
        /\ Head(left) = "deactivate" => at' = at - 1
    BY <1>3 DEF Upward
  <2>3. at \in Int /\ \A n \in Nodes : n \in Int
    BY <1>1, ServersAssumption DEF TypeOK, Nodes
  <2>4. InOrder'
    BY <1>3, <2>2, <2>3 DEF InOrder
  <2> QED
    BY <2>1, <2>4
<1> QED
  BY <1>1, <1>2, <1>3, AdvanceStep

\* A command or callback that begins keeps it, if it does not put the system into service.
LEMMA BeginInv ==
    ASSUME IInv, NEW k \in Kinds, Begin(k), UNCHANGED <<node, bond>>,
           active' => active /\ k \in Ups
    PROVE  Ascending' /\ ActiveIsWatched' /\ InOrder'
<1>1. Ascending'
  BY Begins, PlanType DEF Ascending
<1>2. ActiveIsWatched'
  BY DEF IInv, ActiveIsWatched, Watched
<1>3. /\ Head(left') = "activate" => at' = 1
      /\ Head(left') = "deactivate" => at' = N
  BY Begins, FirstType DEF Upward
<1>4. InOrder'
  BY <1>3, Begins, ServersAssumption DEF InOrder, Nodes
<1> QED
  BY <1>1, <1>2, <1>4

\* What happens to the servers and bonds, and a transition of a server, leave a watched
\* server watched and activate none but the one whose turn it is.
LEMMA EventInv ==
    ASSUME IInv, Change \/ \E n \in Nodes : Crash(n) \/ Respawn(n) \/ BondBreaks(n)
    PROVE  /\ \A n \in Nodes : Watched(n) => Watched(n)'
           /\ \A n \in Nodes : node'[n] = "active" =>
                  node[n] = "active" \/ (Change /\ n = at)
           /\ UNCHANGED <<active, kind, left, at>>
           /\ Working' => Working
<1>1. TypeOK
  BY DEF IInv
<1>2. CASE Change
  BY <1>1, <1>2 DEF Change, Watched, Lost, TypeOK, Working, serves
<1>3. ASSUME NEW n \in Nodes, Crash(n) \/ Respawn(n) \/ BondBreaks(n)
      PROVE  /\ \A m \in Nodes : Watched(m) => Watched(m)'
             /\ \A m \in Nodes : node'[m] = "active" => node[m] = "active"
             /\ UNCHANGED <<active, kind, left, at>>
             /\ step' = step \/ step' = "hung"
  BY <1>1, <1>3 DEF Crash, Respawn, BondBreaks, Watched, Lost, TypeOK, serves
<1> QED
  BY <1>2, <1>3 DEF Working

\* Every step keeps the invariant.
LEMMA InvStep == IInv /\ [Next]_vars => IInv'
<1> SUFFICES ASSUME IInv, [Next]_vars
             PROVE  IInv'
  OBVIOUS
<1>0. TypeOK /\ Ascending /\ ActiveIsWatched /\ InOrder /\ TypeOK'
  BY TypeStep DEF IInv
<1> SUFFICES Ascending' /\ ActiveIsWatched' /\ InOrder'
  BY <1>0 DEF IInv
<1>1. CASE Change
  <2>1. Working' /\ Working
    BY <1>1 DEF Change, Working
  <2>2. Ascending' /\ ActiveIsWatched'
    BY <1>0, <1>1, <2>1, EventInv DEF Ascending, ActiveIsWatched
  <2>3. at \in Int /\ \A n \in Nodes : n \in Int
    BY <1>0, ServersAssumption DEF TypeOK, Nodes
  <2>4. InOrder'
    BY <1>0, <1>1, <2>1, <2>3, EventInv DEF InOrder
  <2> QED
    BY <2>2, <2>4
<1>2. CASE Throws
  <2>1. Ends(FALSE) /\ Working
    BY <1>2 DEF Throws, Working
  <2>2. ASSUME active
        PROVE  \A n \in Nodes : Watched(n)'
    <3>1. kind # "hard"
      BY <1>0, <2>1, <2>2 DEF Ascending, Ups
    <3> QED
      BY <1>0, <1>2, <2>2, <3>1 DEF Throws, Clear, ActiveIsWatched, Watched
  <2> QED
    BY <2>1, <2>2, EndsInv
<1>3. CASE Check
  <2>0. /\ Working /\ node' = node
        /\ active => kind \in Ups
        /\ at \in Int /\ \A n \in Nodes : n \in Int
    BY <1>0, <1>3, ServersAssumption DEF Check, Ascending, TypeOK, Nodes, Working
  <2>1. CASE Fails /\ bond' = Clear(bond)
    <3>1. active => \A n \in Nodes : Watched(n)'
      BY <1>0, <2>0, <2>1 DEF Clear, ActiveIsWatched, Watched, Ups
    <3>2. CASE kind = "hard"
      <4>1. Head(left) # "activate"
        BY <1>0, <2>0, <3>2, Tails DEF Ascending
      <4> QED
        BY <2>0, <2>1, <3>1, <3>2, <4>1, AdvanceInv DEF Fails
    <3>3. CASE kind # "hard"
      BY <2>0, <2>1, <3>1, <3>3, EndsInv DEF Fails
    <3> QED
      BY <3>2, <3>3
  <2>2. CASE node[at] = "active" /\ Head(left) = "activate" /\ Activated
    <3>1. /\ \A n \in Nodes : Watched(n) => Watched(n)'
          /\ \A n \in Nodes : n = at => Watched(n)'
      <4>1. \/ bond[at] # "none" /\ bond' = bond
            \/ /\ bond[at] = "none"
               /\ \E b \in {"up", "lost"} : bond' = [bond EXCEPT ![at] = b]
        BY <2>2 DEF Activated
      <4> QED
        BY <1>0, <2>0, <2>2, <4>1 DEF Watched, TypeOK
    <3>2. \A n \in Nodes : n <= at => Watched(n)'
      <4>1. \A n \in Nodes : n < at => Watched(n)
        BY <1>0, <2>0, <2>2 DEF InOrder
      <4>2. \A n \in Nodes : n <= at => n < at \/ n = at
        BY <2>0
      <4> QED
        BY <3>1, <4>1, <4>2
    <3>3. active => \A n \in Nodes : Watched(n)'
      BY <1>0, <3>1 DEF ActiveIsWatched
    <3>4. kind # "hard"
      BY <1>0, <2>0, <2>2, Tails DEF Ascending
    <3>5. CASE Advance
      BY <2>0, <2>2, <3>2, <3>3, <3>5, AdvanceInv
    <3>6. CASE Fails
      BY <2>0, <3>3, <3>4, <3>6, EndsInv DEF Fails
    <3> QED
      BY <2>2, <3>5, <3>6 DEF Activated
  <2>3. CASE /\ node[at] = Target[Head(left)] /\ Head(left) # "activate"
             /\ Advance
             /\ bond' = Clear(IF Head(left) = "deactivate"
                              THEN [bond EXCEPT ![at] = "none"] ELSE bond)
    <3>1. ASSUME active
          PROVE  \A n \in Nodes : Watched(n)'
      <4>1. kind # "hard" /\ Head(left) # "deactivate"
        <5>1. left \in {<<"configure", "activate">>, <<"activate">>}
          BY <1>0, <2>0, <3>1 DEF Ascending
        <5> QED
          BY <2>0, <3>1, <5>1, Tails DEF Ups
      <4> QED
        BY <1>0, <2>0, <2>3, <3>1, <4>1 DEF Clear, ActiveIsWatched, Watched
    <3>2. ASSUME Head(left) = "deactivate", kind \in {"reset", "pause"}
          PROVE  \A n \in Nodes : n >= at => node'[n] # "active"
      <4>1. node[at] = "inactive"
        BY <2>3, <3>2 DEF Target
      <4> QED
        BY <1>0, <2>0, <3>2, <4>1 DEF InOrder
    <3> QED
      BY <2>0, <2>3, <3>1, <3>2, AdvanceInv
  <2> QED
    BY <1>3, <2>1, <2>2, <2>3 DEF Check
<1>4. CASE NullClient \/ Call
  BY <1>0, <1>4 DEF NullClient, Call, Ascending, ActiveIsWatched, Watched, InOrder, Working, serves
<1>5. CASE BondTimerElapses
  BY <1>0, <1>5 DEF BondTimerElapses, Ascending, ActiveIsWatched, Watched, InOrder, Working, serves
<1>6. ASSUME NEW k \in Commands, Command(k)
      PROVE  Ascending' /\ ActiveIsWatched' /\ InOrder'
  <2>1. /\ k \in Kinds /\ Begin(k) /\ UNCHANGED <<node, bond>>
        /\ active' => active /\ k \in Ups
    BY <1>0, <1>6 DEF Commands, Kinds, Ups, Downs, Command, TypeOK
  <2> QED
    BY <2>1, BeginInv
<1>7. CASE CheckBondConnections
  <2>1. "hard" \in Kinds /\ UNCHANGED <<node, bond>>
    BY <1>7 DEF CheckBondConnections, Kinds
  <2>2. CASE Begin("hard") /\ ~active'
    BY <2>1, <2>2, BeginInv
  <2>3. CASE UNCHANGED <<active, step, serves>>
    BY <1>0, <2>1, <2>3 DEF Ascending, ActiveIsWatched, Watched, InOrder, Working, serves
  <2> QED
    BY <1>7, <2>2, <2>3 DEF CheckBondConnections
<1>8. CASE CheckBondRespawnConnection
  <2>1. CASE Begin("recover") /\ ~active
    <3>1. "recover" \in Kinds /\ UNCHANGED <<node, bond, active>>
      BY <1>8 DEF CheckBondRespawnConnection, Kinds, Ups
    <3> QED
      BY <2>1, <3>1, BeginInv
  <2>2. CASE UNCHANGED serves /\ (UNCHANGED step \/ (step' = "crashed" /\ ~active))
    <3>1. /\ step = "idle" /\ UNCHANGED <<node, bond, active>>
          /\ UNCHANGED <<kind, left, at>>
      BY <1>8, <2>2 DEF CheckBondRespawnConnection, serves
    <3>2. Ascending' /\ InOrder'
      BY <2>2, <3>1 DEF Ascending, InOrder, Working
    <3>3. ActiveIsWatched'
      BY <1>0, <3>1 DEF ActiveIsWatched, Watched
    <3> QED
      BY <3>2, <3>3
  <2> QED
    BY <1>8, <2>1, <2>2 DEF CheckBondRespawnConnection
<1>9. ASSUME NEW n \in Nodes, Crash(n) \/ Respawn(n) \/ BondBreaks(n)
      PROVE  Ascending' /\ ActiveIsWatched' /\ InOrder'
  <2>1. \A m \in Nodes : node'[m] = "active" => node[m] = "active"
    BY <1>0, <1>9 DEF Crash, Respawn, BondBreaks, TypeOK
  <2> QED
    BY <1>0, <1>9, <2>1, EventInv DEF Ascending, ActiveIsWatched, InOrder
<1>10. CASE UNCHANGED vars
  BY <1>0, <1>10 DEF vars, serves, Working, Ascending, ActiveIsWatched, Watched, InOrder
<1> QED
  BY <1>1, <1>2, <1>3, <1>4, <1>5, <1>6, <1>7, <1>8, <1>9, <1>10 DEF Next, Serve

\* The invariant holds before the first command.
LEMMA InvInit == Init => IInv
BY TypeInit DEF Init, IInv, Ascending, ActiveIsWatched, InOrder, Working

\* The invariant holds in every state.
LEMMA Invariant == Spec => []IInv
<1>1. Init => IInv
  BY InvInit
<1>2. IInv /\ [Next]_vars => IInv'
  BY InvStep
<1> QED
  BY <1>1, <1>2, PTL DEF Spec

\* While is_active answers yes every server is active or about to be found lost, for any
\* number of servers, crashes and commands (startup, resume, checkBondConnections).
THEOREM AlwaysWatched == Spec => []ActiveIsWatched
<1>1. IInv => ActiveIsWatched
  BY DEF IInv
<1> QED
  BY <1>1, Invariant, PTL

\* Servers are always brought up in order and, by reset and pause, down in reverse order
\* (changeStateForAllNodes).
THEOREM AlwaysInOrder == Spec => []InOrder
<1>1. IInv => InOrder
  BY DEF IInv
<1> QED
  BY <1>1, Invariant, PTL

-----------------------------------------------------------------------------
(* Every command ends: it makes two calls for each server and transition,  *)
(* and no call is made twice.  This is what CommandEnds rests on besides   *)
(* fairness.                                                               *)

\* The calls a command may still make: those of the transitions after this one, two for
\* each server this one has still to reach, and at the server it is at one or two.
Calls(transitions, server, call) ==
    2 * N * (Len(transitions) - 1)
    + 2 * (IF Upward(Head(transitions)) THEN N - server + 1 ELSE server)
    - (IF call = "check" THEN 1 ELSE 0)

CallsLeft == Calls(left, at, step)

\* A call has returned: with the answer to change_state or get_state, or by an exception.
Return == Change \/ Check \/ Throws

\* A call that returns brings the command nearer to its end, whatever it says; a server that
\* crashes or comes back, and a bond that breaks, do not send it back.
EveryCallCounts ==
    [][Working /\ Working' => IF Return THEN CallsLeft' < CallsLeft
                                        ELSE CallsLeft' = CallsLeft]_vars

\* A command makes at most six calls for each server: the three transitions of a shutdown.
CallsBounded == Working => CallsLeft \in 1 .. 6 * N

AtMostThree == Working => Len(left) <= 3

\* How many calls are left is between those of the later transitions and those of this one
\* with them.
LEMMA CallsShape ==
    ASSUME NEW l \in Seq(Transitions), l # <<>>, NEW a \in Nodes, NEW c
    PROVE  /\ Calls(l, a, c) \in Int
           /\ 2 * N * (Len(l) - 1) < Calls(l, a, c)
           /\ Calls(l, a, c) <= 2 * N * (Len(l) - 1) + 2 * N
<1> DEFINE M == 2 * N * (Len(l) - 1)
           R == IF Upward(Head(l)) THEN N - a + 1 ELSE a
           C == IF c = "check" THEN 1 ELSE 0
<1>1. M \in Int
  BY ServersAssumption
<1>2. R \in 1 .. N
  BY ServersAssumption DEF Nodes
<1>3. C \in {0, 1}
  OBVIOUS
<1>4. Calls(l, a, c) = M + 2 * R - C
  BY DEF Calls
<1> HIDE DEF M, R, C
<1>5. /\ Calls(l, a, c) \in Int
      /\ M < Calls(l, a, c)
      /\ Calls(l, a, c) <= M + 2 * N
  BY <1>1, <1>2, <1>3, <1>4, ServersAssumption
<1> QED
  BY <1>5 DEF M

\* A transition of all servers that ends leaves fewer calls, or none.
LEMMA EndsCounts ==
    ASSUME TypeOK, Working, NEW ok \in BOOLEAN, Ends(ok), Working'
    PROVE  /\ CallsLeft' < CallsLeft
           /\ Len(left') = Len(left) - 1
<1>1. /\ step' = "change" /\ left' = Tail(left) /\ left' # <<>>
      /\ left' \in Seq(Transitions) /\ Head(left') \in Transitions
      /\ at' = First(Head(left')) /\ at' \in Nodes
  BY EndsStep DEF Working, Finish
<1>2. left \in Seq(Transitions) /\ left # <<>> /\ at \in Nodes
  BY DEF TypeOK, Working
<1>3. Len(left') = Len(left) - 1 /\ Len(left) \in Nat /\ Len(left') \in Nat \ {0}
  BY <1>1, <1>2
<1>4. (IF Upward(Head(left')) THEN N - at' + 1 ELSE at') = N
  BY <1>1, FirstType, ServersAssumption
<1>5. CallsLeft' = 2 * N * (Len(left') - 1) + 2 * N - 0
  BY <1>1, <1>4 DEF CallsLeft, Calls
<1>6. 2 * N * (Len(left') - 1) + 2 * N = 2 * N * (Len(left) - 1)
  <2>1. \A k \in Int : 2 * N * (k - 1) + 2 * N = 2 * N * k
    BY ServersAssumption
  <2> QED
    BY <1>3, <2>1
<1>7. 2 * N * (Len(left) - 1) < CallsLeft
  BY <1>2, CallsShape DEF CallsLeft
<1>8. CallsLeft' = 2 * N * (Len(left) - 1)
  <2>1. 2 * N - 0 = 2 * N
    BY ServersAssumption
  <2> QED
    BY <1>5, <1>6, <2>1, Zenon
<1> QED
  BY <1>3, <1>7, <1>8

\* Going on with the next server spends its calls.
LEMMA AdvanceCounts ==
    ASSUME TypeOK, step = "check", Advance, Working'
    PROVE  /\ CallsLeft' < CallsLeft
           /\ Len(left') <= Len(left)
<1>0. Working
  BY DEF Working
<1>1. CASE Ends(TRUE)
  <2>1. Len(left) \in Nat
    BY <1>0 DEF TypeOK
  <2>2. CallsLeft' < CallsLeft /\ Len(left') = Len(left) - 1
    BY <1>0, <1>1, EndsCounts, Zenon
  <2> QED
    BY <2>1, <2>2
<1>2. CASE ~Ends(TRUE)
  <2>1. /\ step' = "change" /\ at' \in Nodes
        /\ at' = IF Upward(Head(left)) THEN at + 1 ELSE at - 1
        /\ UNCHANGED left
    BY <1>0, <1>2, AdvanceStep DEF Working
  <2>2. left \in Seq(Transitions) /\ left # <<>> /\ at \in Nodes /\ Len(left) \in Nat
    BY <1>0 DEF TypeOK, Working
  <2> DEFINE M == 2 * N * (Len(left) - 1)
             R(a) == IF Upward(Head(left)) THEN N - a + 1 ELSE a
  <2>3. M \in Int
    BY <2>2, ServersAssumption
  <2>4. CallsLeft = M + 2 * R(at) - 1
    BY DEF CallsLeft, Calls
  <2>5. CallsLeft' = M + 2 * R(at') - 0
    BY <2>1 DEF CallsLeft, Calls
  <2>6. R(at') = R(at) - 1 /\ R(at) \in Int
    BY <2>1, <2>2, ServersAssumption DEF Nodes
  <2> HIDE DEF M, R
  <2> QED
    BY <2>1, <2>2, <2>3, <2>4, <2>5, <2>6
<1> QED
  BY <1>1, <1>2

\* Every call of a command under way counts, and no transition is added to its list.
LEMMA ReturnCounts ==
    ASSUME TypeOK, Working, Return, Working'
    PROVE  /\ CallsLeft' < CallsLeft
           /\ Len(left') <= Len(left)
<1>0. Len(left) \in Nat
  BY DEF TypeOK
<1>1. CASE Change
  <2>1. step = "called" /\ step' = "check" /\ UNCHANGED <<left, at>>
    BY <1>1 DEF Change, serves
  <2>2. left \in Seq(Transitions) /\ left # <<>> /\ at \in Nodes
    BY DEF TypeOK, Working
  <2> DEFINE M == 2 * N * (Len(left) - 1)
             R == IF Upward(Head(left)) THEN N - at + 1 ELSE at
  <2>3. M \in Int /\ R \in Int
    BY <1>0, <2>2, ServersAssumption DEF Nodes
  <2>4. CallsLeft = M + 2 * R - 0 /\ CallsLeft' = M + 2 * R - 1
    BY <2>1 DEF CallsLeft, Calls
  <2> HIDE DEF M, R
  <2> QED
    BY <1>0, <2>1, <2>3, <2>4
<1>2. CASE Throws
  <2>1. Ends(FALSE)
    BY <1>2 DEF Throws
  <2>2. CallsLeft' < CallsLeft /\ Len(left') = Len(left) - 1
    BY <2>1, EndsCounts, Zenon
  <2> QED
    BY <1>0, <2>2
<1>3. CASE Check
  <2>1. step = "check" /\ (Advance \/ Ends(FALSE))
    BY <1>3 DEF Check, Activated, Fails
  <2>2. CASE Ends(FALSE)
    <3>1. CallsLeft' < CallsLeft /\ Len(left') = Len(left) - 1
      BY <2>2, EndsCounts, Zenon
    <3> QED
      BY <1>0, <3>1
  <2> QED
    BY <2>1, <2>2, AdvanceCounts
<1> QED
  BY <1>1, <1>2, <1>3 DEF Return

\* A step that is no call leaves a command under way where it is.
LEMMA OthersKeep ==
    ASSUME TypeOK, Working, [Next]_vars, ~Return, Working'
    PROVE  UNCHANGED <<left, at>> /\ (step' = "check" <=> step = "check")
<1>1. CASE Call
  BY <1>1 DEF Call, serves
<1>2. CASE BondTimerElapses \/ \E n \in Nodes : Crash(n) \/ Respawn(n) \/ BondBreaks(n)
  BY <1>2 DEF BondTimerElapses, Crash, Respawn, BondBreaks, Working, serves
<1>3. CASE UNCHANGED vars
  BY <1>3 DEF vars, serves
<1>4. ~(\/ NullClient \/ CheckBondConnections \/ CheckBondRespawnConnection
        \/ \E k \in Commands : Command(k))
  BY DEF Working, NullClient, CheckBondConnections, CheckBondRespawnConnection, Command
<1> QED
  BY <1>1, <1>2, <1>3, <1>4 DEF Next, Serve, Return

\* No plan has more than three transitions.
LEMMA PlanLength == \A k \in Kinds : Len(Plan[k]) <= 3
<1> SUFFICES ASSUME NEW k \in Kinds PROVE Len(Plan[k]) <= 3
  OBVIOUS
<1>1. Plan[k] \in {<<"configure", "activate">>, <<"activate">>, <<"deactivate", "cleanup">>,
                   <<"deactivate">>, <<"deactivate", "cleanup", "finalize">>}
  BY DEF Plan, Kinds, Ups, Downs
<1>2. /\ Len(<<"activate">>) = 1 /\ Len(<<"deactivate">>) = 1
      /\ Len(<<"configure", "activate">>) = 2 /\ Len(<<"deactivate", "cleanup">>) = 2
      /\ Len(<<"deactivate", "cleanup", "finalize">>) = 3
  OBVIOUS
<1>3. Len(Plan[k]) \in {1, 2, 3}
  BY <1>1, <1>2, Zenon
<1>4. \A n \in {1, 2, 3} : n <= 3
  OBVIOUS
<1> QED
  BY <1>3, <1>4, Zenon

\* The calls of a command under way are between one and six for each server, from its
\* beginning on.
LEMMA BoundedStep == TypeOK /\ AtMostThree /\ [Next]_vars => AtMostThree'
<1> SUFFICES ASSUME TypeOK, AtMostThree, [Next]_vars, Working' PROVE Len(left') <= 3
  BY DEF AtMostThree
<1>0. TypeOK'
  BY TypeStep
<1>1. CASE Working /\ Return
  <2>1. Len(left') <= Len(left) /\ Len(left) <= 3
    BY <1>1, ReturnCounts DEF AtMostThree
  <2>2. Len(left) \in Nat /\ Len(left') \in Nat
    BY <1>0 DEF TypeOK
  <2> QED
    BY <2>1, <2>2
<1>2. CASE Working /\ ~Return
  BY <1>2, OthersKeep DEF AtMostThree
<1>3. CASE ~Working
  <2>1. \E k \in Kinds : Begin(k)
    BY <1>3 DEF Working, Next, Serve, Call, Change, Throws, Check, NullClient, Command,
                BondTimerElapses, CheckBondConnections, CheckBondRespawnConnection, Crash, Respawn, BondBreaks,
                vars, serves, Kinds, Commands, Ups, Downs
  <2>2. PICK k \in Kinds : Begin(k)
    BY <2>1
  <2> QED
    BY <2>2, PlanLength DEF Begin
<1> QED
  BY <1>1, <1>2, <1>3

\* A command of the operator, a hard reset or a recovery makes at most six calls for each
\* server, for any number of servers (changeStateForAllNodes, shutdownAllNodes).
THEOREM CallsAlwaysBounded == Spec => []CallsBounded
<1>1. Init => AtMostThree
  BY DEF Init, AtMostThree, Working
<1>2. TypeOK /\ AtMostThree => CallsBounded
  <2> SUFFICES ASSUME TypeOK, Len(left) <= 3, Working PROVE CallsLeft \in 1 .. 6 * N
    BY DEF CallsBounded, AtMostThree
  <2>1. left \in Seq(Transitions) /\ left # <<>> /\ at \in Nodes
    BY DEF TypeOK, Working
  <2>2. Len(left) \in {1, 2, 3}
    <3>1. Len(left) \in Nat /\ Len(left) # 0
      BY <2>1
    <3>2. \A n \in Nat : n # 0 /\ n <= 3 => n \in {1, 2, 3}
      OBVIOUS
    <3> QED
      BY <3>1, <3>2, Zenon
  <2>3. /\ CallsLeft \in Int
        /\ 2 * N * (Len(left) - 1) < CallsLeft
        /\ CallsLeft <= 2 * N * (Len(left) - 1) + 2 * N
    BY <2>1, CallsShape DEF CallsLeft
  <2>4. 2 * N * (Len(left) - 1) \in 0 .. 4 * N
    <3>1. Len(left) - 1 \in {0, 1, 2}
      BY <2>2
    <3>2. \A k \in {0, 1, 2} : 2 * N * k \in 0 .. 4 * N
      BY ServersAssumption
    <3> QED
      BY <3>1, <3>2
  <2> QED
    BY <2>3, <2>4, ServersAssumption
<1> QED
  BY <1>1, <1>2, BoundedStep, TypeInit, TypeStep, PTL DEF Spec

\* Whatever the servers answer, and whoever crashes meanwhile, a command never makes a call
\* again: with CallsAlwaysBounded, it cannot keep the manager for ever
\* (changeStateForAllNodes; the hard reset, which goes on after a failure).
THEOREM CallsAlwaysCount == Spec => EveryCallCounts
<1>1. TypeOK /\ [Next]_vars
        => [Working /\ Working' => IF Return THEN CallsLeft' < CallsLeft
                                             ELSE CallsLeft' = CallsLeft]_vars
  <2> SUFFICES ASSUME TypeOK, [Next]_vars, Working, Working'
               PROVE  IF Return THEN CallsLeft' < CallsLeft ELSE CallsLeft' = CallsLeft
    OBVIOUS
  <2>1. CASE Return
    BY <2>1, ReturnCounts
  <2>2. CASE ~Return
    BY <2>2, OthersKeep DEF CallsLeft, Calls
  <2> QED
    BY <2>1, <2>2
<1> QED
  BY <1>1, TypeInit, TypeStep, PTL DEF Spec, EveryCallCounts
=============================================================================
