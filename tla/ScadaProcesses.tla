--------------------------- MODULE ScadaProcesses ---------------------------
(***************************************************************************)
(* SLAM and nav2 as processes of wheeltec_scada_bridge/node.py.  The       *)
(* command thread serves one request at a time as a list of steps (todo):  *)
(* stop or start a managed process, save the map, remember a map, report a *)
(* mode.  An exception ends the list and the request is answered with an   *)
(* error.  The main thread spins until it is interrupted and then          *)
(* (main.py, destroy_node) stops what the table lists, while the daemon    *)
(* command thread still serves.  Both are inside _stop_managed_process at  *)
(* their own position at[t].                                               *)
(*                                                                         *)
(* A process is the leader of its group (Popen with setsid): it runs, is a *)
(* zombie, or is gone once a poll() or wait() has reaped it.  It may exit  *)
(* at any time, may ignore SIGTERM, and may outlast SIGKILL for longer     *)
(* than the two seconds the code waits.                                    *)
(***************************************************************************)
EXTENDS Naturals, Sequences

CONSTANTS
    MaxPids,        \* bound: processes that exist at a time
    Maps,           \* map files
    NoMap           \* _current_map_path before the first one

ASSUME PidsAssumption == MaxPids \in Nat
ASSUME MapsAssumption == NoMap \notin Maps

VARIABLES
    table,          \* _managed_processes: name -> process, or None
    leader, mapOf,  \* per process: what runs or how it ended; the map it was started with
    mode,           \* telemetry_data["navigation_mode"]
    curMap,         \* _current_map_path
    serving, todo,  \* command thread
    at, held, raised,               \* per thread, inside _stop_managed_process
    life, left, victim,             \* main thread; the names still to be stopped, the one being stopped
    survivors, calm                 \* history: outlasted SIGKILL; no request during shutdown

procs   == <<leader, mapOf>>
reports == <<mode, curMap>>
command == <<serving, todo>>
stops   == <<at, held, raised>>
main    == <<life, left, victim>>
vars    == <<table, procs, reports, command, stops, main, survivors, calm>>

Names   == {"slam", "nav2"}
Threads == {"cmd", "main"}
Pids    == 1 .. MaxPids
None    == 0
Where   == {"out", "term", "wait", "kill", "reap", "pop"}
Steps   == [op : {"stop", "start", "register", "mode", "map", "save", "list"},
            arg : Names \cup {"idle"} \cup Maps \cup {NoMap}]

Up(p)   == p # None /\ leader[p] \in Names
\* poll() and wait() collect the exit status of a leader that is gone
Reap(p) == leader' = IF p # None /\ leader[p] = "zombie" THEN [leader EXCEPT ![p] = "gone"]
                     ELSE leader

Do(op, arg) == [op |-> op, arg |-> arg]

ToSlamBeside == <<Do("start", "slam"), Do("mode", "slam")>>     \* mutant: nav2 is not stopped

\* _switch_navigation_mode
ToSlam == <<Do("stop", "nav2"), Do("start", "slam"), Do("mode", "slam")>>

ToNav2KeepingOld(m) ==      \* mutant: the running nav2 is not stopped first
    <<Do("stop", "slam"), Do("map", m), Do("start", "nav2"), Do("mode", "nav2")>>
ToNav2(m) == <<Do("stop", "slam"), Do("stop", "nav2"), Do("map", m),
               Do("start", "nav2"), Do("mode", "nav2")>>

\* the requests about processes, and an empty one that stands for all the others
Request ==
    {ToSlam, <<Do("stop", "slam")>> \o ToSlam} \cup {ToNav2(m) : m \in Maps \cup {NoMap}}
      \cup {<<Do("stop", n), Do("mode", "idle")>> : n \in Names}
      \cup {<<Do("save", m)>> : m \in Maps} \cup {<<Do("list", "idle")>>, <<>>}

Init ==
    /\ table = [n \in Names |-> None]
    /\ leader = [p \in Pids |-> "gone"] /\ mapOf = [p \in Pids |-> NoMap]
    /\ mode = "idle" /\ curMap = NoMap
    /\ serving = "recv" /\ todo = <<>>
    /\ at = [t \in Threads |-> "out"]
    /\ held = [t \in Threads |-> None] /\ raised = [t \in Threads |-> FALSE]
    /\ life = "spin" /\ left = {} /\ victim = "slam"
    /\ survivors = {} /\ calm = FALSE

-----------------------------------------------------------------------------
(* The command thread.  It is a daemon: it stops where it is when the main *)
(* thread is gone.  Every request is answered, with an error if a step     *)
(* raised.                                                                 *)

CmdRuns == life # "exited" /\ at["cmd"] = "out"

Receive(r) == /\ CmdRuns /\ serving = "recv"
              /\ serving' = "work" /\ todo' = r
              /\ calm' = FALSE
              /\ UNCHANGED <<table, procs, reports, stops, main, survivors>>

Reply == /\ CmdRuns /\ serving = "work" /\ todo = <<>>
         /\ serving' = IF life = "closed" THEN "ended" ELSE "recv"
         /\ UNCHANGED <<table, procs, reports, todo, stops, main, survivors, calm>>

At(op)    == CmdRuns /\ todo # <<>> /\ Head(todo).op = op
StepDone  == todo' = Tail(todo) /\ UNCHANGED serving
StepFails == todo' = <<>> /\ UNCHANGED serving

SetMode == /\ At("mode") /\ mode' = Head(todo).arg /\ StepDone
           /\ UNCHANGED <<table, procs, curMap, stops, main, survivors, calm>>

SetMap == /\ At("map")
          /\ curMap' = IF Head(todo).arg = NoMap THEN curMap ELSE Head(todo).arg
          /\ StepDone
          /\ UNCHANGED <<table, procs, mode, stops, main, survivors, calm>>

\* _save_current_map: no map yet, the saver fails or times out, or what follows it raises
Save == /\ At("save")
        /\ \/ curMap' = Head(todo).arg /\ StepDone
           \/ UNCHANGED curMap /\ StepFails
        /\ UNCHANGED <<table, procs, mode, stops, main, survivors, calm>>

\* _list_active_nodes polls every process of the table
List == /\ At("list") /\ StepDone
        /\ leader' = [p \in Pids |-> IF p \in {table[n] : n \in Names} /\ ~Up(p) THEN "gone"
                                     ELSE leader[p]]
        /\ UNCHANGED <<table, mapOf, reports, stops, main, survivors, calm>>

\* the number of a process that is over and that nobody refers to
Unused(p) == /\ ~Up(p)
             /\ \A n \in Names : table[n] # p
             /\ \A t \in Threads : held[t] # p

Launch(n, p) == /\ Unused(p) /\ \A q \in 1 .. p - 1 : ~Unused(q)
                /\ leader' = [q \in Pids |-> IF q = p THEN n
                              ELSE IF q = table[n] /\ ~Up(q) THEN "gone" ELSE leader[q]]
                /\ mapOf' = [mapOf EXCEPT ![p] = IF n = "nav2" THEN curMap ELSE NoMap]
                /\ held' = [held EXCEPT !["cmd"] = p]
                /\ survivors' = survivors \ {p}
                /\ todo' = <<Do("register", n)>> \o Tail(todo)
                /\ UNCHANGED serving

StartAgain ==   \* mutant: the process of that name is not looked at
    /\ At("start")
    /\ \E p \in Pids : Launch(Head(todo).arg, p)
    /\ UNCHANGED <<table, reports, at, raised, main, calm>>

\* _start_managed_process: a process of that name runs, Popen raises, or it creates one
Start ==
    LET n == Head(todo).arg IN
    /\ At("start")
    /\ \/ Up(table[n]) /\ StepDone /\ UNCHANGED <<procs, held, survivors>>
       \/ ~Up(table[n]) /\ StepFails /\ Reap(table[n]) /\ UNCHANGED <<mapOf, held, survivors>>
       \/ ~Up(table[n]) /\ \E p \in Pids : Launch(n, p)
    /\ UNCHANGED <<table, reports, at, raised, main, calm>>

\* ... and enters it in the table
Register == /\ At("register")
            /\ table' = [table EXCEPT ![Head(todo).arg] = held["cmd"]]
            /\ held' = [held EXCEPT !["cmd"] = None]
            /\ StepDone
            /\ UNCHANGED <<procs, reports, at, raised, main, survivors, calm>>

-----------------------------------------------------------------------------
(* _stop_managed_process, on thread t.                                     *)

Inside(t, w) == life # "exited" /\ at[t] = w
GoTo(t, w)   == at' = [at EXCEPT ![t] = w]
OnlyStops    == UNCHANGED <<table, mapOf, reports, command, main, calm>>

\* poll(): nothing to stop, or a process to signal
Look(t, n) == LET p == table[n] IN
              /\ GoTo(t, IF Up(p) THEN "term" ELSE "pop")
              /\ held' = [held EXCEPT ![t] = p] /\ Reap(p)
              /\ UNCHANGED <<table, mapOf, reports, command, raised, survivors, calm>>

CmdStops == At("stop") /\ Look("cmd", Head(todo).arg) /\ UNCHANGED main

\* killpg(getpgid(pid)) raises once another thread has reaped the process
Signal(t, next) == LET gone == leader[held[t]] = "gone" IN
                   /\ GoTo(t, IF gone THEN "pop" ELSE next)
                   /\ raised' = [raised EXCEPT ![t] = gone]
                   /\ UNCHANGED <<leader, held, survivors>> /\ OnlyStops

Term(t) == Inside(t, "term") /\ Signal(t, "wait")

\* wait() returns, or times out after five seconds
Exited(t) == /\ Inside(t, "wait") \/ Inside(t, "reap")
             /\ ~Up(held[t])
             /\ GoTo(t, "pop") /\ Reap(held[t])
             /\ UNCHANGED <<held, raised, survivors>> /\ OnlyStops

TermGivesUp(t) ==       \* mutant: a process that ignores SIGTERM is not killed
    /\ Inside(t, "wait") /\ Up(held[t])
    /\ GoTo(t, "pop")
    /\ UNCHANGED <<leader, held, raised, survivors>> /\ OnlyStops

TermIgnored(t) == /\ Inside(t, "wait") /\ Up(held[t])
                  /\ GoTo(t, "kill")
                  /\ UNCHANGED <<leader, held, raised, survivors>> /\ OnlyStops

Kill(t) == Inside(t, "kill") /\ Signal(t, "reap")

KillWaitsOn(t) == FALSE     \* mutant: the wait after SIGKILL has no timeout

\* the wait after SIGKILL times out, which raises
KillIgnored(t) == /\ Inside(t, "reap") /\ Up(held[t])
                  /\ GoTo(t, "pop") /\ raised' = [raised EXCEPT ![t] = TRUE]
                  /\ survivors' = survivors \cup {held[t]}
                  /\ UNCHANGED <<leader, held>> /\ OnlyStops

\* finally: pop(name)
Forget(t) == /\ Inside(t, "pop")
             /\ table' = [table EXCEPT ![IF t = "main" THEN victim ELSE Head(todo).arg] = None]
             /\ GoTo(t, "out") /\ raised' = [raised EXCEPT ![t] = FALSE]
             /\ held' = [held EXCEPT ![t] = None]

CmdForgets == /\ Forget("cmd")
              /\ IF raised["cmd"] THEN StepFails ELSE StepDone
              /\ UNCHANGED <<procs, reports, main, survivors, calm>>

\* destroy_node catches an exception and goes on with the next name
MainForgets == /\ Forget("main")
               /\ UNCHANGED <<procs, reports, command, main, survivors, calm>>

StopProcess(t) == Term(t) \/ Exited(t) \/ TermIgnored(t) \/ Kill(t) \/ KillIgnored(t)

-----------------------------------------------------------------------------
(* The main thread: main() and destroy_node.                               *)

Interrupt == /\ life = "spin"
             /\ life' = "closing" /\ left' = {n \in Names : table[n] # None}
             /\ calm' = (serving = "recv")
             /\ UNCHANGED <<table, procs, reports, command, stops, victim, survivors>>

MainStops == /\ life = "closing" /\ at["main"] = "out"
             /\ \E n \in left : Look("main", n) /\ victim' = n /\ left' = left \ {n}
             /\ UNCHANGED life

\* destroy_node of the base class and rclpy.shutdown; then the interpreter exits
Close == /\ life = "closing" /\ at["main"] = "out" /\ left = {}
         /\ life' = "closed"
         /\ UNCHANGED <<table, procs, reports, command, stops, left, victim, survivors, calm>>

Leave == /\ life = "closed"
         /\ life' = "exited"
         /\ UNCHANGED <<table, procs, reports, command, stops, left, victim, survivors, calm>>

LeaderExits(p) == /\ Up(p)
                  /\ leader' = [leader EXCEPT ![p] = "zombie"]
                  /\ mapOf' = [mapOf EXCEPT ![p] = NoMap]
                  /\ UNCHANGED <<table, reports, command, stops, main, survivors, calm>>

-----------------------------------------------------------------------------
CmdStep == \/ Reply \/ SetMode \/ SetMap \/ Save \/ List \/ Start \/ Register
           \/ CmdStops \/ StopProcess("cmd") \/ CmdForgets

MainStep == MainStops \/ StopProcess("main") \/ MainForgets \/ Close \/ Leave

Next == \/ \E r \in Request : Receive(r)
        \/ CmdStep \/ MainStep \/ Interrupt
        \/ \E p \in Pids : LeaderExits(p)

Spec == Init /\ [][Next]_vars

\* both are threads that run; every wait of theirs returns or times out
FairSpec == Spec /\ WF_vars(CmdStep) /\ WF_vars(MainStep)

-----------------------------------------------------------------------------
(* Properties.                                                             *)

\* Every variable has its type; a thread inside the stop routine holds a process.
TypeOK ==
    /\ table \in [Names -> Pids \cup {None}]
    /\ leader \in [Pids -> Names \cup {"zombie", "gone"}]
    /\ mapOf \in [Pids -> Maps \cup {NoMap}]
    /\ mode \in Names \cup {"idle"} /\ curMap \in Maps \cup {NoMap}
    /\ serving \in {"recv", "work", "ended"} /\ todo \in Seq(Steps)
    /\ at \in [Threads -> Where]
    /\ held \in [Threads -> Pids \cup {None}] /\ raised \in [Threads -> BOOLEAN]
    /\ life \in {"spin", "closing", "closed", "exited"} /\ left \subseteq Names /\ victim \in Names
    /\ survivors \subseteq Pids /\ calm \in BOOLEAN

\* While the node spins SLAM and nav2 never localise the robot at the same time, unless one of
\* them outlasted SIGKILL: _switch_navigation_mode stops one before it starts the other, also
\* when a process exits by itself, a start raises or a stop runs into its deadlines.
OneLocaliser ==
    life = "spin" =>
        \A p, q \in Pids : Up(p) /\ Up(q) /\ p # q => {p, q} \cap survivors # {}

\* While the node spins no process runs that _managed_processes does not list, so that the
\* operator can stop it; excepted are the one just created and those SIGKILL did not end, which
\* `finally: pop` forgets.
NothingForgotten ==
    life = "spin" =>
        \A p \in Pids : Up(p) => \/ table[leader[p]] = p \/ p \in survivors
                                 \/ held["cmd"] = p /\ Head(todo).op = "register"

\* Between requests the reported mode is not that of a robot in the other mode: where it says
\* "slam" no nav2 runs and the other way round, whatever failed on the way.
ModeTruthful ==
    life = "spin" /\ serving = "recv" =>
        \A p \in Pids : Up(p) /\ mode # "idle" => leader[p] = mode \/ p \in survivors

\* A nav2 about to be reported as started runs on the map the request asked for, or on the
\* current one, not on the map of an earlier nav2 that was left running.
NavOnAskedMap ==
    life = "spin" /\ todo = <<Do("mode", "nav2")>> /\ Up(table["nav2"]) => mapOf[table["nav2"]] = curMap

\* If no request is served during the shutdown, nothing the node started is left running when it
\* is over, but for what SIGKILL did not end; one failing stop does not keep the others from it.
NothingLeftBehind ==
    life \in {"closed", "exited"} /\ calm => \A p \in Pids : Up(p) => p \in survivors

\* Every request is answered, however long processes take to stop and whatever raises.
RequestAnswered == serving = "work" ~> serving # "work" \/ life = "exited"

\* A shutdown comes to its end, whatever the processes do.
ShutdownEnds == life = "closing" ~> life = "exited"

-----------------------------------------------------------------------------
(* Statements the code does not keep (README, section 6).                  *)

\* "idle": nothing is running.  Stopping SLAM or nav2 reports idle while the other runs.
IdleIsIdle == life = "spin" /\ serving = "recv" /\ mode = "idle" => \A p \in Pids : ~Up(p)

\* What the node started does not outlive it, also when a request is served meanwhile.
NothingOutlives == life = "exited" => \A p \in Pids : Up(p) => p \in survivors

=============================================================================
