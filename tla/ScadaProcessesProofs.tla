------------------------ MODULE ScadaProcessesProofs ------------------------
(***************************************************************************)
(* What the command thread keeps of the two processes while the node       *)
(* spins, for any number of processes and maps.  The main thread stops     *)
(* nothing before it is interrupted, so that the argument is about one     *)
(* thread and processes that end by themselves: the list of steps under    *)
(* way says what has been stopped already and what is about to start.      *)
(***************************************************************************)
EXTENDS ScadaProcesses, SequenceTheorems, TLAPS

Other(n) == IF n = "slam" THEN "nav2" ELSE "slam"

\* The shape of the lists of steps: a start is the last step but one, followed
\* by the report of its mode, which follows nothing else; and only what it has
\* started is registered.
WellFormed(q) ==
    \A i \in 1 .. Len(q) :
        /\ q[i].op \in {"stop", "start", "register"} => q[i].arg \in Names
        /\ q[i].op = "mode" => q[i].arg \in Names \cup {"idle"}
        /\ q[i].op = "register" => i = 1
        /\ q[i].op \in {"start", "register"} =>
               Len(q) = i + 1 /\ q[i + 1] = Do("mode", q[i].arg)
        /\ q[i].op \notin {"start", "register"} /\ i < Len(q) =>
               \A n \in Names : q[i + 1] # Do("mode", n)

Typed ==
    /\ table \in [Names -> Pids \cup {None}]
    /\ leader \in [Pids -> Names \cup {"zombie", "gone"}]
    /\ todo \in Seq(Steps) /\ WellFormed(todo)
    /\ at \in [Threads -> Where]
    /\ held \in [Threads -> Pids \cup {None}]
    /\ DOMAIN mapOf = Pids
    /\ left \subseteq Names
    /\ at["cmd"] # "out" => todo # <<>>

\* A step says that process n runs, or will run.
Brings(s, n) == s.op \in {"start", "register", "mode"} /\ s.arg = n

\* A stop of process n precedes step i of list q, or it is not in table tb.
Stopped(q, i, n, tb) == tb[n] = None \/ \E j \in 1 .. i - 1 : q[j] = Do("stop", n)

\* Where a process is brought up the other one is stopped first; and nav2 itself.
ClearedIn(q, tb) ==
    \A i \in 1 .. Len(q) :
        /\ \A n \in Names : Brings(q[i], n) => Stopped(q, i, Other(n), tb)
        /\ q[i] = Do("start", "nav2") => Stopped(q, i, "nav2", tb)
Cleared == ClearedIn(todo, table)

Registering(n) == todo # <<>> /\ todo[1].op = "register" /\ todo[1].arg = n

\* NothingForgotten, with the name under which the new process is registered.
Listed ==
    \A p \in Pids : Up(p) => \/ table[leader[p]] = p \/ p \in survivors
                             \/ held["cmd"] = p /\ Registering(leader[p])

\* What the command thread holds while it stops a process.
Holding ==
    at["cmd"] # "out" =>
        /\ todo # <<>> /\ todo[1].op = "stop"
        /\ held["cmd"] = table[todo[1].arg]
        /\ at["cmd"] # "pop" => held["cmd"] # None
        /\ at["cmd"] = "pop" => ~Up(held["cmd"]) \/ held["cmd"] \in survivors

\* A process to be registered takes the place of none that runs.
Fresh ==
    \A n \in Names : Registering(n) =>
        held["cmd"] # None /\ ~Up(table[n]) /\ \A m \in Names : table[m] # held["cmd"]

Spinning == at["main"] = "out" /\ (serving # "work" => todo = <<>>)

\* A process in the other mode is about to be reported.
Reported ==
    \A p \in Pids : Up(p) /\ p \notin survivors /\ mode \notin {"idle", leader[p]} =>
        Registering(leader[p]) \/ (todo # <<>> /\ todo[1] = Do("mode", leader[p]))

\* nav2 is started on the current map, which no step changes before its report.
OnMap ==
    /\ Registering("nav2") /\ Up(held["cmd"]) => mapOf[held["cmd"]] = curMap
    /\ todo # <<>> /\ todo[1] = Do("mode", "nav2") /\ Up(table["nav2"]) =>
           mapOf[table["nav2"]] = curMap

Kept == Spinning /\ Cleared /\ Listed /\ Holding /\ Fresh /\ OneLocaliser /\ Reported /\ OnMap

IInv == Typed /\ (life = "spin" => Kept)

-----------------------------------------------------------------------------
(* The lists of steps.                                                     *)

\* A step about a process is an operation and the name it is about.
LEMMA StepTyped ==
    ASSUME NEW op \in {"stop", "start", "register", "mode"}, NEW n \in Names
    PROVE  Do(op, n) \in Steps /\ Do(op, n).op = op /\ Do(op, n).arg = n
  BY DEF Do, Steps, Names

\* Tail and a step put before a list, position by position.
IsTail(t, q) == /\ t \in Seq(Steps) /\ Len(t) = Len(q) - 1
                /\ \A i \in 1 .. Len(t) : i + 1 \in 1 .. Len(q) /\ t[i] = q[i + 1]

\* What is left of a request when its first step is done.
LEMMA TailSteps ==
    ASSUME NEW q \in Seq(Steps), q # <<>>
    PROVE  IsTail(Tail(q), q) /\ 1 \in 1 .. Len(q) /\ Head(q) = q[1] /\ Head(q) \in Steps
  <1>1. Len(q) \in Nat \ {0} /\ Head(q) = q[1] /\ Head(q) \in Steps
    BY EmptySeq, HeadTailProperties
  <1> QED BY <1>1, HeadTailProperties DEF IsTail

\* A step put before the others, as start_slam and start_nav2 put the registration.
LEMMA PutBefore ==
    ASSUME NEW d \in Steps, NEW t \in Seq(Steps), NEW r, r = <<d>> \o t
    PROVE  /\ r \in Seq(Steps) /\ Len(r) = Len(t) + 1
           /\ r[1] = d /\ \A i \in 1 .. Len(t) : r[i + 1] = t[i]
  <1>1. <<d>> \in Seq(Steps) /\ Len(<<d>>) = 1 /\ <<d>>[1] = d
    OBVIOUS
  <1> QED BY <1>1, ConcatProperties

\* The requests of cmd_loop stop the other process before they start one.
LEMMA RequestsFormed ==
    ASSUME NEW r \in Request
    PROVE  /\ r \in Seq(Steps) /\ WellFormed(r) /\ \A tb : ClearedIn(r, tb)
           /\ r # <<>> => r[1].op \in {"stop", "save", "list"}
  <1> DEFINE Formed == /\ r \in Seq(Steps) /\ WellFormed(r) /\ \A tb : ClearedIn(r, tb)
                       /\ r # <<>> => r[1].op \in {"stop", "save", "list"}
  <1> SUFFICES Formed
    OBVIOUS
  <1>1. CASE r = ToSlam
    BY <1>1 DEF WellFormed, ClearedIn, Stopped, Brings, Other, Do, Steps, Names, ToSlam
  <1>2. CASE r = <<Do("stop", "slam")>> \o ToSlam
    <2>1. ToSlam \in Seq(Steps) /\ Len(ToSlam) = 3 /\ ToSlam[1] = Do("stop", "nav2")
          /\ ToSlam[2] = Do("start", "slam") /\ ToSlam[3] = Do("mode", "slam")
      BY DEF ToSlam, Do, Steps, Names
    <2>2. Do("stop", "slam") \in Steps
      BY DEF Do, Steps, Names
    <2>3. /\ r \in Seq(Steps) /\ Len(r) = Len(ToSlam) + 1 /\ r[1] = Do("stop", "slam")
          /\ \A i \in 1 .. Len(ToSlam) : r[i + 1] = ToSlam[i]
      <3>1. PICK d, t : d = Do("stop", "slam") /\ t = ToSlam
        OBVIOUS
      <3>2. d \in Steps /\ t \in Seq(Steps) /\ r = <<d>> \o t
        BY <1>2, <2>1, <2>2, <3>1
      <3>3. /\ r \in Seq(Steps) /\ Len(r) = Len(t) + 1
            /\ r[1] = d /\ \A i \in 1 .. Len(t) : r[i + 1] = t[i]
        BY <3>2, PutBefore
      <3> QED BY <3>1, <3>3
    <2>4. r[1 + 1] = ToSlam[1] /\ r[2 + 1] = ToSlam[2] /\ r[3 + 1] = ToSlam[3]
      BY <2>1, <2>3
    <2>0. Len(r) = 4
      BY <2>1, <2>3
    <2>5. /\ Len(r) = 4 /\ r[2] = Do("stop", "nav2")
          /\ r[3] = Do("start", "slam") /\ r[4] = Do("mode", "slam")
      BY <2>1, <2>3, <2>4
    <2>6. \A i \in 1 .. Len(r) : i = 1 \/ i = 2 \/ i = 3 \/ i = 4
      <3>1. \A i \in 1 .. 4 : i = 1 \/ i = 2 \/ i = 3 \/ i = 4
        OBVIOUS
      <3> QED BY <2>0, <3>1
    <2>7. WellFormed(r)
      <3>1. r[1].op = "stop" /\ r[2].op = "stop" /\ r[3].op = "start" /\ r[4].op = "mode"
        BY <2>3, <2>5 DEF Do
      <3>2. r[1].arg = "slam" /\ r[2].arg = "nav2" /\ r[3].arg = "slam" /\ r[4].arg = "slam"
        BY <2>3, <2>5 DEF Do
      <3>3. Len(r) = 3 + 1 /\ r[3 + 1] = Do("mode", r[3].arg)
        BY <2>0, <2>5, <3>2
      <3>4. \A n \in Names : r[1 + 1] # Do("mode", n) /\ r[2 + 1] # Do("mode", n)
        BY <2>3, <2>5 DEF Do
      <3>5. /\ r[2].op \notin {"start", "register"} => \A n \in Names : r[2 + 1] # Do("mode", n)
            /\ ~(4 < Len(r))
        BY <2>0, <3>4
      <3> QED BY <2>6, <3>1, <3>2, <3>3, <3>4, <3>5 DEF WellFormed, Names
    <2>8. ASSUME NEW tb PROVE Stopped(r, 3, "nav2", tb) /\ Stopped(r, 4, "nav2", tb)
      BY <2>5 DEF Stopped
    <2>9. ASSUME NEW tb PROVE ClearedIn(r, tb)
      BY <2>3, <2>5, <2>6, <2>8 DEF ClearedIn, Brings, Other, Do, Names
    <2> QED BY <2>3, <2>7, <2>9 DEF Do
  <1>3. ASSUME NEW m \in Maps \cup {NoMap}, r = ToNav2(m)
        PROVE  Formed
    BY <1>3 DEF WellFormed, ClearedIn, Stopped, Brings, Other, Do, Steps, Names, ToNav2
  <1>4. ASSUME NEW n \in Names, r = <<Do("stop", n), Do("mode", "idle")>>
        PROVE  Formed
    BY <1>4 DEF WellFormed, ClearedIn, Stopped, Brings, Other, Do, Steps, Names
  <1>5. ASSUME NEW m \in Maps, r = <<Do("save", m)>>
        PROVE  Formed
    BY <1>5 DEF WellFormed, ClearedIn, Stopped, Brings, Other, Do, Steps, Names
  <1>6. CASE r = <<Do("list", "idle")>>
    BY <1>6 DEF WellFormed, ClearedIn, Stopped, Brings, Other, Do, Steps, Names
  <1>7. CASE r = <<>>
    BY <1>7 DEF WellFormed, ClearedIn, Stopped, Brings, Other, Do, Steps, Names
  <1> HIDE DEF Formed
  <1> QED BY <1>1, <1>2, <1>3, <1>4, <1>5, <1>6, <1>7 DEF Request

\* A request stays well formed when its first step is done.
LEMMA TailFormed ==
    ASSUME NEW q \in Seq(Steps), WellFormed(q), NEW t, IsTail(t, q)
    PROVE  WellFormed(t)
  <1> SUFFICES ASSUME NEW i \in 1 .. Len(t)
               PROVE  /\ t[i].op \in {"stop", "start", "register"} => t[i].arg \in Names
                      /\ t[i].op = "mode" => t[i].arg \in Names \cup {"idle"}
                      /\ t[i].op = "register" => i = 1
                      /\ t[i].op \in {"start", "register"} =>
                             Len(t) = i + 1 /\ t[i + 1] = Do("mode", t[i].arg)
                      /\ t[i].op \notin {"start", "register"} /\ i < Len(t) =>
                             \A n \in Names : t[i + 1] # Do("mode", n)
    BY DEF WellFormed
  <1>1. i + 1 \in 1 .. Len(q) /\ t[i] = q[i + 1]
    BY DEF IsTail
  <1>2. t[i].op \in {"start", "register"} => Len(q) = i + 1 + 1 /\ q[i + 1 + 1] = Do("mode", t[i].arg)
    BY <1>1 DEF WellFormed
  <1>3. t[i].op \in {"start", "register"} => Len(t) = i + 1 /\ t[i + 1] = Do("mode", t[i].arg)
    BY <1>2 DEF IsTail
  <1>4. t[i].op # "register"
    BY <1>1 DEF WellFormed
  <1>5. ASSUME t[i].op \notin {"start", "register"}, i < Len(t), NEW n \in Names
        PROVE  t[i + 1] # Do("mode", n)
    <2>1. i + 1 < Len(q) /\ t[i + 1] = q[i + 1 + 1]
      BY <1>5 DEF IsTail
    <2> QED BY <1>1, <1>5, <2>1 DEF WellFormed
  <1>6. /\ t[i].op \in {"stop", "start", "register"} => t[i].arg \in Names
        /\ t[i].op = "mode" => t[i].arg \in Names \cup {"idle"}
    BY <1>1 DEF WellFormed
  <1> QED BY <1>3, <1>4, <1>5, <1>6

\* After the step "start" of process n comes the report of its mode, and
\* nothing else; so it does after the step "register" put in its place.
LEMMA StartFormed ==
    ASSUME NEW q \in Seq(Steps), WellFormed(q), 1 \in 1 .. Len(q),
           q[1].op \in {"start", "register"}
    PROVE  q[1].arg \in Names /\ Len(q) = 2 /\ q[2] = Do("mode", q[1].arg)
  <1>1. q[1].arg \in Names
    BY DEF WellFormed
  <1>2. Len(q) = 1 + 1
    BY DEF WellFormed
  <1>3. q[1 + 1] = Do("mode", q[1].arg)
    BY DEF WellFormed
  <1> QED BY <1>1, <1>2, <1>3

\* The registration of a process that started, and the mode that is then reported, are well formed.
LEMMA RegisterFormed ==
    ASSUME NEW n \in Names, NEW r \in Seq(Steps), Len(r) = 2,
           r[1] = Do("register", n), r[2] = Do("mode", n)
    PROVE  WellFormed(r)
  <1>1. \A i \in 1 .. 2 : i = 1 \/ i = 2
    OBVIOUS
  <1>2. r[1].op = "register" /\ r[1].arg = n /\ r[2].op = "mode" /\ r[2].arg = n
    BY DEF Do
  <1>3. Len(r) = 1 + 1 /\ r[1 + 1] = Do("mode", n)
    OBVIOUS
  <1> QED BY <1>1, <1>2, <1>3 DEF WellFormed

\* Names that the rest of a request stops first stay cleared as its steps are done.
LEMMA ClearedTail ==
    ASSUME NEW q \in Seq(Steps), 1 \in 1 .. Len(q), q[1].op # "stop",
           NEW tb, ClearedIn(q, tb), NEW t, IsTail(t, q)
    PROVE  ClearedIn(t, tb)
  <1>1. ASSUME NEW i \in 1 .. Len(t), NEW n, Stopped(q, i + 1, n, tb)
        PROVE  Stopped(t, i, n, tb)
    <2>1. CASE tb[n] = None
      BY <2>1 DEF Stopped
    <2>2. ASSUME NEW j \in 1 .. i, q[j] = Do("stop", n)
          PROVE  \E k \in 1 .. i - 1 : t[k] = Do("stop", n)
      <3>1. j # 1
        BY <2>2 DEF Do
      <3>2. j - 1 \in 1 .. i - 1 /\ t[j - 1] = q[j]
        BY <1>1, <2>2, <3>1 DEF IsTail
      <3> QED BY <2>2, <3>2
    <2> QED BY <1>1, <2>1, <2>2 DEF Stopped
  <1> QED BY <1>1 DEF ClearedIn, IsTail

\* A stop that is done clears the name the next steps need out of the table.
LEMMA ClearedByStop ==
    ASSUME NEW q \in Seq(Steps), NEW n \in Names, q[1] = Do("stop", n),
           NEW tb \in [Names -> Pids \cup {None}], ClearedIn(q, tb),
           NEW new, new = [tb EXCEPT ![n] = None], NEW t, IsTail(t, q)
    PROVE  ClearedIn(t, new)
  <1>1. ASSUME NEW i \in 1 .. Len(t), NEW m \in Names, Stopped(q, i + 1, m, tb)
        PROVE  Stopped(t, i, m, new)
    <2>1. CASE tb[m] = None \/ m = n
      BY <2>1 DEF Stopped
    <2>2. ASSUME NEW j \in 1 .. i, q[j] = Do("stop", m), m # n
          PROVE  \E k \in 1 .. i - 1 : t[k] = Do("stop", m)
      <3>1. j # 1
        BY <2>2 DEF Do
      <3>2. j - 1 \in 1 .. i - 1 /\ t[j - 1] = q[j]
        BY <1>1, <2>2, <3>1 DEF IsTail
      <3> QED BY <2>2, <3>2
    <2> QED BY <1>1, <2>1, <2>2 DEF Stopped
  <1>2. \A m \in Names : Other(m) \in Names
    BY DEF Other, Names
  <1>3. "nav2" \in Names
    BY DEF Names
  <1> QED BY <1>1, <1>2, <1>3 DEF ClearedIn, IsTail

\* What is not yet in the table when it is registered changes no entry that
\* matters for the report of its mode.
LEMMA ClearedByRegister ==
    ASSUME NEW n \in Names, NEW p, NEW tb \in [Names -> Pids \cup {None}],
           NEW q \in Seq(Steps), Len(q) = 2,
           q[1] = Do("register", n), q[2] = Do("mode", n), ClearedIn(q, tb),
           NEW new, new = [tb EXCEPT ![n] = p], NEW t, IsTail(t, q)
    PROVE  ClearedIn(t, new) /\ new[Other(n)] = None
  <1>1. Other(n) \in Names /\ Other(n) # n
    BY DEF Other, Names
  <1>2. Stopped(q, 2, Other(n), tb)
    BY DEF ClearedIn, Brings, Do
  <1>3. tb[Other(n)] = None
    BY <1>1, <1>2 DEF Stopped, Do
  <1>4. new[Other(n)] = None
    BY <1>1, <1>3
  <1>5. Len(t) = 1 /\ t[1] = Do("mode", n)
    BY DEF IsTail
  <1>6. \A i \in 1 .. Len(t) : i = 1
    BY <1>5
  <1> QED BY <1>4, <1>5, <1>6 DEF ClearedIn, Stopped, Brings, Do

-----------------------------------------------------------------------------
(* Types.                                                                  *)

\* The first step of a request that is not done yet.
LEMMA HeadKnown ==
    ASSUME Typed, todo # <<>>
    PROVE  /\ Head(todo) = todo[1] /\ todo[1] \in Steps /\ 1 \in 1 .. Len(todo)
           /\ IsTail(Tail(todo), todo) /\ Tail(todo) \in Seq(Steps) /\ WellFormed(Tail(todo))
           /\ todo[1].op \in {"stop", "start", "register"} => todo[1].arg \in Names
           /\ todo[1].op = "mode" => todo[1].arg \in Names \cup {"idle"}
  <1>1. /\ IsTail(Tail(todo), todo) /\ 1 \in 1 .. Len(todo)
        /\ Head(todo) = todo[1] /\ todo[1] \in Steps
    BY TailSteps DEF Typed
  <1>2. Tail(todo) \in Seq(Steps)
    BY <1>1 DEF IsTail
  <1>3. WellFormed(Tail(todo))
    BY <1>1, TailFormed DEF Typed
  <1> QED BY <1>1, <1>2, <1>3 DEF Typed, WellFormed

\* A request that is done, or was cut short.
LEMMA NoSteps == <<>> \in Seq(Steps) /\ WellFormed(<<>>) /\ \A tb : ClearedIn(<<>>, tb)
  BY DEF WellFormed, ClearedIn

\* What Launch makes of the list of steps.
LEMMA Launched ==
    ASSUME Typed, todo # <<>>, todo[1].op = "start", NEW n, n = todo[1].arg, NEW r
    PROVE  /\ n \in Names /\ Len(todo) = 2 /\ todo[2] = Do("mode", n)
           /\ r = <<Do("register", n)>> \o Tail(todo) =>
                  /\ r \in Seq(Steps) /\ Len(r) = 2 /\ WellFormed(r)
                  /\ r[1] = Do("register", n) /\ r[2] = Do("mode", n)
  <1>1. n \in Names /\ Len(todo) = 2 /\ todo[2] = Do("mode", n)
    BY StartFormed, HeadKnown DEF Typed
  <1>2. Do("register", n) \in Steps
    BY <1>1, StepTyped
  <1>3. ASSUME r = <<Do("register", n)>> \o Tail(todo)
        PROVE  /\ r \in Seq(Steps) /\ Len(r) = 2 /\ WellFormed(r)
               /\ r[1] = Do("register", n) /\ r[2] = Do("mode", n)
    <2>1. PICK d, t : d = Do("register", n) /\ t = Tail(todo)
      OBVIOUS
    <2>2. d \in Steps /\ t \in Seq(Steps) /\ r = <<d>> \o t /\ IsTail(t, todo)
      BY <1>2, <1>3, <2>1, HeadKnown
    <2>3. Len(t) = 1 /\ t[1] = todo[2]
      BY <1>1, <2>2 DEF IsTail
    <2>4. r \in Seq(Steps) /\ Len(r) = Len(t) + 1 /\ r[1] = d /\ \A i \in 1 .. Len(t) : r[i + 1] = t[i]
      BY <2>2, PutBefore
    <2>5. r[1 + 1] = t[1]
      BY <2>3, <2>4
    <2>6. Len(r) = 2 /\ r[1] = Do("register", n) /\ r[2] = Do("mode", n)
      BY <1>1, <2>1, <2>3, <2>4, <2>5
    <2>7. WellFormed(r)
      BY <1>1, <2>4, <2>6, RegisterFormed
    <2> QED BY <2>4, <2>6, <2>7
  <1> QED BY <1>1, <1>3

\* A list that has lost its first step, or all of them, is one still.
LEMMA ShorterTyped ==
    ASSUME Typed, todo # <<>>, todo' = Tail(todo) \/ todo' = <<>>
    PROVE  todo' \in Seq(Steps) /\ WellFormed(todo')
  BY HeadKnown, NoSteps

\* A signal of _stop_managed_process leaves leader a function on the processes.
LEMMA SignalTyped ==
    ASSUME Typed, NEW t \in Threads, NEW next \in Where, at[t] \in Where \ {"out", "pop"}, Signal(t, next)
    PROVE  Typed'
  BY DEF Signal, Typed, GoTo, OnlyStops, command, main, Where, Threads

\* The steps inside _stop_managed_process keep the types.
LEMMA StopTyped ==
    ASSUME Typed, NEW t \in Threads, StopProcess(t) \/ TermIgnored(t)
    PROVE  Typed'
  <1>1. CASE Term(t)
    BY <1>1, SignalTyped DEF Term, Inside, Where
  <1>2. CASE Exited(t)
    BY <1>2 DEF Exited, Inside, Typed, GoTo, OnlyStops, command, main, Where, Threads, Reap, Pids
  <1>3. CASE TermIgnored(t)
    BY <1>3 DEF TermIgnored, Inside, Typed, GoTo, OnlyStops, command, main, Where, Threads
  <1>4. CASE Kill(t)
    BY <1>4, SignalTyped DEF Kill, Inside, Where
  <1>5. CASE KillIgnored(t)
    BY <1>5 DEF KillIgnored, Inside, Typed, GoTo, OnlyStops, command, main, Where, Threads
  <1> QED BY <1>1, <1>2, <1>3, <1>4, <1>5 DEF StopProcess

\* The first look of _stop_managed_process at the table keeps the types.
LEMMA LookTyped ==
    ASSUME Typed, NEW t \in Threads, t = "cmd" => todo # <<>>, NEW n \in Names, Look(t, n),
           left' \subseteq Names
    PROVE  Typed'
  BY DEF Look, Typed, GoTo, command, Where, Reap, Pids, Threads

\* The pop that ends _stop_managed_process keeps the types.
LEMMA ForgetTyped ==
    ASSUME Typed, NEW t \in Threads, Forget(t)
    PROVE  /\ table' \in [Names -> Pids \cup {None}]
           /\ at' \in [Threads -> Where]
           /\ held' \in [Threads -> Pids \cup {None}]
           /\ at'["cmd"] = IF t = "cmd" THEN "out" ELSE at["cmd"]
  BY DEF Forget, Typed, GoTo, Where, Threads

\* start_slam and start_nav2 keep the types.
LEMMA StartTyped ==
    ASSUME Typed, Start
    PROVE  Typed'
  <1>1. todo # <<>> /\ todo[1].op = "start" /\ Head(todo) = todo[1] /\ todo[1].arg \in Names
    BY HeadKnown DEF Start, At
  <1> DEFINE n == todo[1].arg
  <1>2. CASE Up(table[n]) /\ StepDone /\ UNCHANGED <<procs, held, survivors>>
    BY <1>1, <1>2, ShorterTyped DEF Start, StepDone, procs, Typed, At, CmdRuns, main
  <1>3. CASE ~Up(table[n]) /\ StepFails /\ Reap(table[n]) /\ UNCHANGED <<mapOf, held, survivors>>
    <2>1. leader' \in [Pids -> Names \cup {"zombie", "gone"}]
      BY <1>1, <1>3 DEF Reap, Typed
    <2> QED BY <1>1, <1>3, <2>1, ShorterTyped DEF Start, StepFails, Typed, At, CmdRuns, main
  <1>4. ASSUME NEW p \in Pids, Launch(n, p) PROVE Typed'
    <2>1. todo' = <<Do("register", n)>> \o Tail(todo)
      BY <1>4 DEF Launch
    <2>2. todo' \in Seq(Steps) /\ WellFormed(todo')
      BY <1>1, <2>1, Launched
    <2>3. leader' \in [Pids -> Names \cup {"zombie", "gone"}] /\ held' \in [Threads -> Pids \cup {None}]
          /\ DOMAIN mapOf' = Pids
      BY <1>1, <1>4 DEF Launch, Typed
    <2> QED BY <2>2, <2>3 DEF Start, Typed, At, CmdRuns, main
  <1> QED BY <1>1, <1>2, <1>3, <1>4 DEF Start

\* Every step keeps the types.
LEMMA TypedKept ==
    ASSUME Typed, [Next]_vars
    PROVE  Typed'
  <1> USE DEF procs, reports, command, stops, main
  <1>1. ASSUME NEW r \in Request, Receive(r) PROVE Typed'
    BY <1>1, RequestsFormed DEF Receive, CmdRuns, Typed
  <1>2. CASE Reply
    BY <1>2 DEF Reply, Typed
  <1>3. CASE SetMode \/ SetMap \/ Save
    <2>1. todo' \in Seq(Steps) /\ WellFormed(todo')
      BY <1>3, ShorterTyped DEF SetMode, SetMap, Save, At, StepDone, StepFails
    <2> QED BY <1>3, <2>1 DEF SetMode, SetMap, Save, Typed, At, CmdRuns
  <1>4. CASE List
    <2>1. todo' \in Seq(Steps) /\ WellFormed(todo')
      BY <1>4, ShorterTyped DEF List, At, StepDone
    <2> QED BY <1>4, <2>1 DEF List, Typed, At, CmdRuns
  <1>5. CASE Start
    BY <1>5, StartTyped
  <1>6. CASE Register
    <2>1. todo # <<>> /\ todo[1].op = "register" /\ Head(todo) = todo[1] /\ todo[1].arg \in Names
      BY <1>6, HeadKnown DEF Register, At
    <2>2. todo' \in Seq(Steps) /\ WellFormed(todo')
      BY <1>6, <2>1, ShorterTyped DEF Register, StepDone
    <2> QED BY <1>6, <2>1, <2>2 DEF Register, Typed, Threads, At, CmdRuns
  <1>7. CASE CmdStops
    <2>1. todo # <<>> /\ Head(todo).arg \in Names /\ left' \subseteq Names
      BY <1>7, HeadKnown DEF CmdStops, At, Typed
    <2> QED BY <1>7, <2>1, LookTyped DEF CmdStops, Threads
  <1>8. ASSUME NEW t \in Threads, StopProcess(t) PROVE Typed'
    BY <1>8, StopTyped
  <1>9. CASE CmdForgets
    <2>1. todo # <<>>
      BY <1>9 DEF CmdForgets, Forget, Inside, Typed
    <2>2. todo' \in Seq(Steps) /\ WellFormed(todo')
      BY <1>9, <2>1, ShorterTyped DEF CmdForgets, StepDone, StepFails
    <2> QED BY <1>9, <2>2, ForgetTyped DEF CmdForgets, Typed, Threads
  <1>10. CASE MainForgets
    BY <1>10, ForgetTyped DEF MainForgets, Typed, Threads
  <1>11. CASE MainStops
    <2>1. PICK n \in left : Look("main", n) /\ left' = left \ {n}
      BY <1>11 DEF MainStops
    <2>2. n \in Names /\ left' \subseteq Names
      BY <2>1 DEF Typed
    <2> QED BY <2>1, <2>2, LookTyped DEF Threads
  <1>12. CASE Interrupt \/ Close \/ Leave
    BY <1>12 DEF Interrupt, Close, Leave, Typed
  <1>13. ASSUME NEW p \in Pids, LeaderExits(p) PROVE Typed'
    BY <1>13 DEF LeaderExits, Typed
  <1>14. CASE UNCHANGED vars
    BY <1>14 DEF vars, Typed
  <1> QED BY <1>1, <1>2, <1>3, <1>4, <1>5, <1>6, <1>7, <1>8, <1>9, <1>10, <1>11, <1>12, <1>13, <1>14
       DEF Next, CmdStep, MainStep, Threads

-----------------------------------------------------------------------------
(* The steps of the command thread while the node spins.                   *)

\* None is no process, and idle is no name of the table.
LEMMA NoneIsNoPid == None \notin Pids /\ "slam" \in Names /\ "nav2" \in Names /\ "idle" \notin Names
  BY PidsAssumption DEF None, Pids, Names

\* A process that ends, or that outlasts SIGKILL, breaks nothing.
LEMMA Fewer ==
    ASSUME Typed, Kept, life = "spin", life' = "spin",
           UNCHANGED <<table, todo, mode, curMap>>,
           held'["cmd"] = held["cmd"] \/ todo = <<>> \/ todo[1].op # "register",
           survivors \subseteq survivors',
           \A p \in Pids : Up(p)' => Up(p) /\ leader'[p] = leader[p] /\ mapOf'[p] = mapOf[p]
    PROVE  Cleared' /\ Listed' /\ Fresh' /\ OneLocaliser' /\ Reported' /\ OnMap'
  <1> USE DEF Kept
  <1>1. Cleared'
    BY DEF Cleared
  <1>2. Listed'
    BY DEF Listed, Registering
  <1>3. \A n \in Names : Up(table[n])' => Up(table[n])
    BY NoneIsNoPid DEF Typed, Up
  <1>4. Fresh'
    BY <1>3 DEF Fresh, Registering
  <1>5. OneLocaliser'
    BY DEF OneLocaliser
  <1>6. Reported'
    BY DEF Reported, Registering
  <1>7. ASSUME NEW p \in Pids \cup {None}, Up(p)'
        PROVE  Up(p) /\ mapOf'[p] = mapOf[p]
    BY <1>7, NoneIsNoPid DEF Up
  <1>8. OnMap'
    <2>1. Registering("nav2")' => Registering("nav2") /\ held'["cmd"] = held["cmd"]
      BY DEF Registering
    <2>2. held["cmd"] \in Pids \cup {None} /\ table["nav2"] \in Pids \cup {None}
      BY NoneIsNoPid DEF Typed, Threads
    <2> QED BY <1>7, <2>1, <2>2 DEF OnMap
  <1> QED BY <1>1, <1>2, <1>4, <1>5, <1>6, <1>8

\* What follows a step that brings nothing up is neither a registration nor a
\* report.
LEMMA Following ==
    ASSUME Typed, todo # <<>>, todo[1].op \notin {"start", "register"},
           todo' = Tail(todo) \/ todo' = <<>>
    PROVE  /\ \A n \in Names : ~Registering(n)'
           /\ \A n \in Names : ~(todo # <<>> /\ todo[1] = Do("mode", n))'
           /\ \A tb : ClearedIn(todo, tb) /\ todo[1].op # "stop" => ClearedIn(todo', tb)
  <1>1. CASE todo' = <<>>
    BY <1>1, NoSteps DEF Registering
  <1>2. CASE todo' = Tail(todo)
    <2>1. PICK t : t = Tail(todo)
      OBVIOUS
    <2>2. IsTail(t, todo) /\ WellFormed(t) /\ t \in Seq(Steps) /\ 1 \in 1 .. Len(todo)
      BY <2>1, HeadKnown
    <2>3. ASSUME t # <<>> PROVE 1 \in 1 .. Len(t) /\ t[1] = todo[1 + 1] /\ 1 < Len(todo)
      <3>1. 1 \in 1 .. Len(t)
        BY <2>2, <2>3, EmptySeq
      <3> QED BY <2>2, <3>1 DEF IsTail
    <2>4. ASSUME t # <<>> PROVE t[1].op # "register"
      BY <2>2, <2>3, <2>4 DEF WellFormed, Typed
    <2>5. ASSUME t # <<>>, NEW n \in Names PROVE t[1] # Do("mode", n)
      BY <2>2, <2>3, <2>5 DEF WellFormed, Typed
    <2>6. ASSUME NEW tb, ClearedIn(todo, tb), todo[1].op # "stop" PROVE ClearedIn(t, tb)
      BY <2>2, <2>6, ClearedTail DEF Typed
    <2> QED BY <1>2, <2>1, <2>4, <2>5, <2>6 DEF Registering
  <1> QED BY <1>1, <1>2

\* The steps inside _stop_managed_process keep the invariant.
LEMMA StopKept ==
    ASSUME Typed, Kept, life = "spin", CmdStops \/ StopProcess("cmd")
    PROVE  Kept'
  <1> USE DEF Kept
  <1>1. /\ todo # <<>> /\ todo[1].op = "stop" /\ todo[1].arg \in Names
        /\ UNCHANGED <<table, todo, mode, curMap, serving, life, mapOf>>
        /\ at'["main"] = at["main"] /\ survivors \subseteq survivors'
    <2>1. CASE CmdStops
      BY <2>1, HeadKnown DEF CmdStops, At, Look, reports, command, main, GoTo, Typed, Threads
    <2>2. CASE StopProcess("cmd")
      BY <2>2, HeadKnown DEF StopProcess, Term, Kill, Signal, Exited, TermIgnored, KillIgnored, Inside,
         OnlyStops, reports, command, main, GoTo, Typed, Threads, Holding
    <2> QED BY <2>1, <2>2
  <1>2. \A p \in Pids \cup {None} : Up(p)' => Up(p) /\ leader'[p] = leader[p]
    <2>1. leader' = leader \/ \E p : Reap(p)
      BY DEF CmdStops, Look, StopProcess, Term, Kill, Signal, Exited, TermIgnored, KillIgnored
    <2>2. ASSUME NEW p, Reap(p) PROVE \A q \in Pids : leader'[q] \in Names => leader'[q] = leader[q]
      BY <2>2 DEF Reap, Typed, Names
    <2> QED BY <2>1, <2>2, NoneIsNoPid DEF Up
  <1>3. Holding'
    <2>1. CASE CmdStops
      <3>1. held'["cmd"] = table[todo[1].arg] /\ table[todo[1].arg] \in Pids \cup {None}
        BY <1>1, <2>1, HeadKnown DEF CmdStops, Look, Typed, Threads
      <3>2. at'["cmd"] = IF Up(held'["cmd"]) THEN "term" ELSE "pop"
        BY <1>1, <2>1, <3>1, HeadKnown DEF CmdStops, Look, Typed, Threads, GoTo
      <3> QED BY <1>1, <1>2, <3>1, <3>2 DEF Holding, Up
    <2>2. CASE Term("cmd") \/ Kill("cmd")
      <3>1. held' = held /\ at["cmd"] \notin {"out", "pop"}
            /\ (at'["cmd"] = "pop" => leader[held["cmd"]] = "gone") /\ leader' = leader
        BY <2>2 DEF Term, Kill, Signal, Inside, GoTo, Typed, Threads
      <3> QED BY <1>1, <3>1 DEF Holding, Up, Names
    <2>3. CASE Exited("cmd")
      <3>1. held' = held /\ at["cmd"] \notin {"out", "pop"} /\ at'["cmd"] = "pop" /\ ~Up(held["cmd"])
        BY <2>3 DEF Exited, Inside, GoTo, Typed, Threads
      <3>2. held["cmd"] \in Pids \cup {None}
        BY DEF Typed, Threads
      <3> QED BY <1>1, <1>2, <3>1, <3>2 DEF Holding
    <2>4. CASE TermIgnored("cmd") \/ KillIgnored("cmd")
      <3>1. held' = held /\ at["cmd"] \notin {"out", "pop"}
            /\ (at'["cmd"] = "pop" => held["cmd"] \in survivors')
        BY <2>4 DEF TermIgnored, KillIgnored, Inside, GoTo, Typed, Threads
      <3> QED BY <1>1, <3>1 DEF Holding
    <2> QED BY <2>1, <2>2, <2>3, <2>4 DEF StopProcess
  <1>4. Spinning'
    BY <1>1 DEF Spinning
  <1>5. Cleared' /\ Listed' /\ Fresh' /\ OneLocaliser' /\ Reported' /\ OnMap'
    BY <1>1, <1>2, Fewer
  <1> QED BY <1>3, <1>4, <1>5

\* Only what does not run, or outlasted SIGKILL, leaves the table.
LEMMA ForgetKept ==
    ASSUME Typed, Kept, life = "spin", CmdForgets
    PROVE  Kept'
  <1> USE DEF Kept
  <1>1. /\ at["cmd"] = "pop" /\ todo # <<>> /\ todo[1].op = "stop" /\ todo[1].arg \in Names
        /\ Head(todo) = todo[1] /\ todo[1] \in Steps /\ held["cmd"] = table[todo[1].arg]
        /\ ~Up(held["cmd"]) \/ held["cmd"] \in survivors
    BY HeadKnown DEF CmdForgets, Forget, Inside, Holding
  <1>2. PICK n \in Names : n = todo[1].arg
    BY <1>1
  <1>3. /\ table' = [table EXCEPT ![n] = None] /\ at'["cmd"] = "out" /\ at'["main"] = at["main"]
        /\ todo' = Tail(todo) \/ todo' = <<>>
        /\ UNCHANGED <<leader, mapOf, mode, curMap, serving, life, survivors>>
    BY <1>1, <1>2 DEF CmdForgets, Forget, GoTo, StepFails, StepDone, procs, reports, main, Typed, Threads
  <1>4. todo[1] = Do("stop", n)
    BY <1>1, <1>2 DEF Steps, Do
  <1>5. /\ \A m \in Names : ~Registering(m)'
        /\ \A m \in Names : ~(todo # <<>> /\ todo[1] = Do("mode", m))'
    BY <1>1, <1>3, Following
  <1>6. Cleared'
    <2>1. CASE todo' = <<>>
      BY <2>1, NoSteps DEF Cleared
    <2>2. CASE todo' = Tail(todo)
      <3>1. PICK t, new : t = Tail(todo) /\ new = [table EXCEPT ![n] = None]
        OBVIOUS
      <3>2. IsTail(t, todo)
        BY <1>1, <3>1, HeadKnown
      <3>3. ClearedIn(t, new)
        BY <1>4, <3>1, <3>2, ClearedByStop DEF Typed, Cleared
      <3> QED BY <1>3, <2>2, <3>1, <3>3 DEF Cleared
    <2> QED BY <1>3, <2>1, <2>2
  <1>7. Listed'
    <2> SUFFICES ASSUME NEW p \in Pids, Up(p)
                 PROVE  table'[leader[p]] = p \/ p \in survivors
      BY <1>3 DEF Listed, Up
    <2>1. leader[p] \in Names /\ ~Registering(leader[p])
      BY <1>1 DEF Up, Registering
    <2> QED BY <1>1, <1>2, <1>3, <2>1 DEF Listed, Typed
  <1>8. Holding' /\ Fresh' /\ OneLocaliser'
    BY <1>3, <1>5 DEF Holding, Fresh, OneLocaliser, Up
  <1>9. Reported'
    <2>1. \A m : todo[1] # Do("mode", m) /\ ~Registering(m)
      BY <1>1 DEF Do, Registering
    <2>2. \A p \in Pids : Up(p) /\ p \notin survivors => mode \in {"idle", leader[p]}
      BY <2>1 DEF Reported
    <2> QED BY <1>3, <2>2 DEF Reported, Up
  <1>10. OnMap'
    BY <1>5, NoneIsNoPid DEF OnMap
  <1>11. Spinning'
    BY <1>1, <1>3 DEF Spinning, CmdForgets, StepDone, StepFails
  <1> QED BY <1>6, <1>7, <1>8, <1>9, <1>10, <1>11

\* Steps that touch no process: the report of a mode, of a map, the list.
LEMMA ReportKept ==
    ASSUME Typed, Kept, life = "spin", SetMode \/ SetMap \/ Save \/ List
    PROVE  Kept'
  <1> USE DEF Kept
  <1>1. /\ todo # <<>> /\ todo[1].op \in {"mode", "map", "save", "list"} /\ Head(todo) = todo[1]
        /\ todo[1] \in Steps /\ at["cmd"] = "out"
        /\ todo' = Tail(todo) \/ todo' = <<>>
        /\ UNCHANGED <<table, mapOf, at, held, life, survivors, serving>>
        /\ mode' = IF todo[1].op = "mode" THEN todo[1].arg ELSE mode
    BY HeadKnown DEF SetMode, SetMap, Save, List, At, CmdRuns, StepDone, StepFails, procs, reports, stops, main
  <1>2. \A p \in Pids : Up(p)' => Up(p) /\ leader'[p] = leader[p]
    BY DEF SetMode, SetMap, Save, List, procs, Up, Typed, Names
  <1>3. /\ \A n \in Names : ~Registering(n)' /\ ~Registering(n)
        /\ \A n \in Names : ~(todo # <<>> /\ todo[1] = Do("mode", n))'
        /\ Cleared'
    BY <1>1, Following DEF Cleared, Registering
  <1>4. Listed' /\ OneLocaliser'
    BY <1>1, <1>2, <1>3 DEF Listed, OneLocaliser, Up
  <1>5. Holding' /\ Fresh' /\ Spinning' /\ OnMap'
    BY <1>1, <1>3, NoneIsNoPid DEF Holding, Fresh, Spinning, OnMap
  <1>6. Reported'
    <2> SUFFICES ASSUME NEW p \in Pids, Up(p), p \notin survivors PROVE mode' \in {"idle", leader[p]}
      BY <1>1, <1>2 DEF Reported
    <2>1. leader[p] \in Names /\ table[leader[p]] = p
      BY <1>3 DEF Up, Listed
    <2>2. CASE todo[1].op # "mode"
      <3>1. todo[1] # Do("mode", leader[p])
        BY <2>2 DEF Do
      <3> QED BY <1>1, <1>3, <2>1, <2>2, <3>1 DEF Reported
    <2>3. CASE todo[1].op = "mode" /\ todo[1].arg \in Names
      <3>1. Brings(todo[1], todo[1].arg) /\ 1 \in 1 .. Len(todo)
        BY <1>1, <2>3, HeadKnown DEF Brings
      <3>2. Stopped(todo, 1, Other(todo[1].arg), table)
        BY <2>3, <3>1 DEF Cleared, ClearedIn
      <3>3. table[Other(todo[1].arg)] = None
        BY <3>2 DEF Stopped
      <3>4. leader[p] # Other(todo[1].arg)
        BY <2>1, <3>3, NoneIsNoPid
      <3> QED BY <1>1, <2>1, <2>3, <3>4 DEF Other, Names
    <2> QED BY <1>1, <2>2, <2>3, HeadKnown
  <1> QED BY <1>3, <1>4, <1>5, <1>6

\* When a process is created no other one runs: the other mode was stopped, and
\* the one of that name has ended.
LEMMA LaunchKept ==
    ASSUME Typed, Typed', Kept, life = "spin", Start, NEW n, n = todo[1].arg,
           ~Up(table[n]), NEW p \in Pids, Launch(n, p)
    PROVE  Kept'
  <1> USE DEF Kept
  <1>1. /\ todo # <<>> /\ todo[1].op = "start" /\ Head(todo) = todo[1] /\ n \in Names
        /\ 1 \in 1 .. Len(todo) /\ at["cmd"] = "out" /\ todo[1] = Do("start", n)
    BY HeadKnown DEF Start, At, CmdRuns, Steps, Do
  <1>2. /\ UNCHANGED <<table, mode, curMap, serving, life, at>>
        /\ survivors' = survivors \ {p} /\ held'["cmd"] = p
        /\ \A m \in Names : table[m] # p
    BY DEF Start, Launch, reports, main, Unused, Typed, Threads
  <1>3. /\ leader'[p] = n
        /\ mapOf' = [mapOf EXCEPT ![p] = IF n = "nav2" THEN curMap ELSE NoMap]
        /\ \A q \in Pids \ {p} : leader'[q] \in Names => leader'[q] = leader[q]
    BY DEF Launch, Typed, Names
  <1>4. /\ todo' # <<>> /\ Len(todo') = 2
        /\ todo'[1] = Do("register", n) /\ todo'[2] = Do("mode", n)
        /\ \A m : Registering(m)' <=> m = n
    <2>1. todo' = <<Do("register", n)>> \o Tail(todo)
      BY DEF Launch
    <2>2. Len(todo') = 2 /\ todo'[1] = Do("register", n) /\ todo'[2] = Do("mode", n)
      BY <1>1, <2>1, Launched
    <2>3. todo' # <<>>
      BY <2>2, EmptySeq
    <2> QED BY <2>2, <2>3 DEF Registering, Do
  <1>5. Other(n) \in Names /\ table[Other(n)] = None /\ (n = "nav2" => table[n] = None)
    <2>1. Brings(todo[1], n) /\ (n = "nav2" => todo[1] = Do("start", "nav2"))
      BY <1>1 DEF Brings
    <2>2. Stopped(todo, 1, Other(n), table) /\ (n = "nav2" => Stopped(todo, 1, "nav2", table))
      BY <1>1, <2>1 DEF Cleared, ClearedIn
    <2> QED BY <2>2 DEF Stopped, Other, Names
  <1>6. ASSUME NEW q \in Pids, Up(q) PROVE q \in survivors
    <2>1. leader[q] \in Names /\ ~Registering(leader[q])
      BY <1>1, <1>6 DEF Up, Registering
    <2>2. table[leader[q]] # q
      <3>1. CASE leader[q] = n
        BY <1>6, <3>1
      <3>2. CASE leader[q] # n
        <4>1. leader[q] = Other(n)
          BY <1>1, <2>1, <3>2 DEF Other, Names
        <4> QED BY <1>5, <1>6, <4>1, NoneIsNoPid
      <3> QED BY <3>1, <3>2
    <2> QED BY <1>6, <2>1, <2>2 DEF Listed
  <1>7. ASSUME NEW q \in Pids \ {p}, Up(q)' PROVE q \in survivors' /\ Up(q)
    BY <1>2, <1>3, <1>6, <1>7 DEF Up
  <1>8. Listed' /\ OneLocaliser'
    BY <1>2, <1>3, <1>4, <1>7 DEF Listed, OneLocaliser
  <1>9. Cleared'
    <2>1. \A i \in 1 .. Len(todo') : i = 1 \/ i = 2
      BY <1>4
    <2>2. \A i \in 1 .. Len(todo') : todo'[i] # Do("start", "nav2")
                                    /\ \A m : Brings(todo'[i], m) => m = n
      BY <1>4, <2>1 DEF Do, Brings
    <2>3. \A i \in 1 .. Len(todo') : Stopped(todo', i, Other(n), table')
      BY <1>2, <1>5 DEF Stopped
    <2> QED BY <2>2, <2>3 DEF Cleared, ClearedIn
  <1>10. Fresh'
    <2>1. ~Up(table[n])'
      BY <1>1, <1>2, <1>3 DEF Up, Typed
    <2> QED BY <1>2, <1>4, <2>1, NoneIsNoPid DEF Fresh
  <1>11. Reported'
    BY <1>2, <1>3, <1>4, <1>7 DEF Reported
  <1>12. OnMap'
    <2>1. todo'[1] # Do("mode", "nav2")
      BY <1>4 DEF Do
    <2>2. n = "nav2" => mapOf'[p] = curMap
      BY <1>3 DEF Typed
    <2> QED BY <1>2, <1>4, <2>1, <2>2 DEF OnMap
  <1>13. Holding' /\ Spinning'
    BY <1>1, <1>2, <1>4 DEF Holding, Spinning
  <1> QED BY <1>8, <1>9, <1>10, <1>11, <1>12, <1>13

\* start_slam and start_nav2 keep the invariant.
LEMMA StartKept ==
    ASSUME Typed, Typed', Kept, life = "spin", Start
    PROVE  Kept'
  <1> USE DEF Kept
  <1>1. /\ todo # <<>> /\ todo[1].op = "start" /\ Head(todo) = todo[1] /\ todo[1].arg \in Names
        /\ 1 \in 1 .. Len(todo) /\ at["cmd"] = "out"
    BY HeadKnown DEF Start, At, CmdRuns
  <1>2. PICK n \in Names : n = todo[1].arg
    BY <1>1
  <1>3. CASE Up(table[n]) /\ StepDone /\ UNCHANGED <<procs, held, survivors>>
    <2>1. /\ todo' = Tail(todo) /\ n # "nav2"
          /\ UNCHANGED <<table, leader, mapOf, mode, curMap, serving, life, at, held, survivors>>
      <3>1. n = "nav2" => todo[1] = Do("start", "nav2")
        BY <1>1, <1>2, HeadKnown DEF Steps, Do
      <3>2. n = "nav2" => Stopped(todo, 1, "nav2", table)
        BY <1>1, <3>1 DEF Cleared, ClearedIn
      <3>3. n # "nav2"
        BY <1>3, <3>2 DEF Stopped, Up
      <3> QED BY <1>1, <1>3, <3>3 DEF Start, StepDone, procs, reports, main
    <2>2. Len(todo) = 2 /\ todo[2] = Do("mode", n)
      BY <1>1, <1>2, StartFormed DEF Typed
    <2>3. PICK t : t = Tail(todo)
      OBVIOUS
    <2>4. IsTail(t, todo)
      BY <1>1, <2>3, HeadKnown
    <2>5. t # <<>> /\ t[1] = Do("mode", n)
      <3>1. Len(t) = 1 /\ t[1] = todo[1 + 1]
        BY <2>2, <2>4 DEF IsTail
      <3> QED BY <2>2, <3>1, EmptySeq
    <2>6. ClearedIn(t, table)
      BY <1>1, <2>4, ClearedTail DEF Typed, Cleared
    <2>7. \A m : ~Registering(m) /\ ~Registering(m)' /\ todo[1] # Do("mode", m)
      BY <1>1, <2>1, <2>3, <2>5 DEF Registering, Do
    <2>8. Cleared' /\ Listed' /\ OneLocaliser' /\ Fresh' /\ Holding' /\ Spinning'
      BY <1>1, <2>1, <2>3, <2>6, <2>7 DEF Cleared, Listed, OneLocaliser, Fresh, Holding, Spinning, Up
    <2>9. Reported' /\ OnMap'
      BY <2>1, <2>3, <2>5, <2>7, NoneIsNoPid DEF Reported, OnMap, Up, Do
    <2> QED BY <2>8, <2>9
  <1>4. CASE ~Up(table[n]) /\ StepFails /\ Reap(table[n]) /\ UNCHANGED <<mapOf, held, survivors>>
    <2>1. /\ todo' = <<>>
          /\ UNCHANGED <<table, mapOf, mode, curMap, serving, life, at, held, survivors>>
      BY <1>4 DEF Start, StepFails, reports, main
    <2>2. \A p \in Pids : Up(p)' => Up(p) /\ leader'[p] = leader[p]
      BY <1>4 DEF Reap, Typed, Names, Up
    <2>3. \A m : ~Registering(m) /\ ~Registering(m)' /\ todo[1] # Do("mode", m)
      BY <1>1, <2>1 DEF Registering, Do
    <2>4. Cleared'
      BY <2>1, NoSteps DEF Cleared
    <2>5. Listed' /\ OneLocaliser' /\ Reported'
      BY <2>1, <2>2, <2>3 DEF Listed, OneLocaliser, Reported, Up
    <2>6. Fresh' /\ Holding' /\ Spinning' /\ OnMap'
      BY <1>1, <2>1, <2>3 DEF Fresh, Holding, Spinning, OnMap
    <2> QED BY <2>4, <2>5, <2>6
  <1>5. CASE ~Up(table[n]) /\ \E p \in Pids : Launch(n, p)
    BY <1>2, <1>5, LaunchKept
  <1> QED BY <1>1, <1>2, <1>3, <1>4, <1>5 DEF Start

\* Entered in the table, the process takes the place of one that has ended.
LEMMA RegisterKept ==
    ASSUME Typed, Kept, life = "spin", Register
    PROVE  Kept'
  <1> USE DEF Kept
  <1>1. /\ todo # <<>> /\ todo[1].op = "register" /\ Head(todo) = todo[1] /\ todo[1].arg \in Names
        /\ 1 \in 1 .. Len(todo) /\ at["cmd"] = "out"
    BY HeadKnown DEF Register, At, CmdRuns
  <1>2. PICK n \in Names : n = todo[1].arg
    BY <1>1
  <1>3. /\ table' = [table EXCEPT ![n] = held["cmd"]] /\ todo' = Tail(todo)
        /\ UNCHANGED <<leader, mapOf, mode, curMap, serving, life, at, survivors>>
    BY <1>1, <1>2 DEF Register, StepDone, procs, reports, main
  <1>4. /\ Len(todo) = 2 /\ todo[2] = Do("mode", n) /\ todo[1] = Do("register", n)
        /\ \A m : Registering(m) <=> m = n
    <2>1. Len(todo) = 2 /\ todo[2] = Do("mode", n)
      BY <1>1, <1>2, StartFormed DEF Typed
    <2> QED BY <1>1, <1>2, <2>1, HeadKnown DEF Registering, Steps, Do
  <1>5. held["cmd"] # None /\ ~Up(table[n])
    BY <1>4 DEF Fresh
  <1>6. PICK t, new : t = Tail(todo) /\ new = table'
    OBVIOUS
  <1>7. IsTail(t, todo)
    BY <1>1, <1>6, HeadKnown
  <1>8. t # <<>> /\ t[1] = Do("mode", n)
    <2>1. Len(t) = 1 /\ t[1] = todo[1 + 1]
      BY <1>4, <1>7 DEF IsTail
    <2> QED BY <1>4, <2>1, EmptySeq
  <1>9. ClearedIn(t, new)
    BY <1>3, <1>4, <1>6, <1>7, ClearedByRegister DEF Typed, Cleared
  <1>10. \A m : ~Registering(m)' /\ todo[1] # Do("mode", m)
    BY <1>3, <1>4, <1>6, <1>8 DEF Registering, Do
  <1>11. Listed'
    <2> SUFFICES ASSUME NEW p \in Pids, Up(p) PROVE table'[leader[p]] = p \/ p \in survivors
      BY <1>3 DEF Listed, Up
    <2>1. leader[p] \in Names
      BY DEF Up
    <2>2. CASE table[leader[p]] = p
      BY <1>3, <1>5, <2>1, <2>2 DEF Typed
    <2>3. CASE held["cmd"] = p /\ leader[p] = n
      BY <1>3, <2>1, <2>3 DEF Typed
    <2> QED BY <1>4, <2>2, <2>3 DEF Listed
  <1>12. Cleared' /\ OneLocaliser' /\ Fresh' /\ Holding' /\ Spinning'
    BY <1>1, <1>3, <1>6, <1>8, <1>9, <1>10 DEF Cleared, OneLocaliser, Fresh, Holding, Spinning, Up
  <1>13. Reported'
    <2> SUFFICES ASSUME NEW p \in Pids, Up(p), p \notin survivors, mode \notin {"idle", leader[p]}
                 PROVE  leader[p] = n
      BY <1>3, <1>6, <1>8 DEF Reported, Up
    <2> QED BY <1>4, <1>10 DEF Reported
  <1>14. OnMap'
    <2>1. n = "nav2" => table'["nav2"] = held["cmd"] /\ Registering("nav2")
      BY <1>3, <1>4 DEF Typed
    <2>2. n # "nav2" => todo'[1] # Do("mode", "nav2")
      BY <1>3, <1>6, <1>8 DEF Do
    <2> QED BY <1>3, <1>10, <2>1, <2>2 DEF OnMap, Up
  <1> QED BY <1>11, <1>12, <1>13, <1>14

\* The arrival of a request keeps the invariant.
LEMMA RequestKept ==
    ASSUME Typed, Kept, life = "spin", NEW r \in Request, Receive(r)
    PROVE  Kept'
  <1> USE DEF Kept
  <1>1. /\ todo = <<>> /\ todo' = r /\ at["cmd"] = "out" /\ serving' = "work"
        /\ UNCHANGED <<table, leader, mapOf, mode, curMap, life, at, held, survivors>>
    BY DEF Receive, CmdRuns, Spinning, procs, reports, stops, main
  <1>2. \A m : ~Registering(m) /\ ~Registering(m)' /\ ~(todo' # <<>> /\ todo'[1] = Do("mode", m))
    BY <1>1, RequestsFormed DEF Registering, Do
  <1>3. Cleared'
    BY <1>1, RequestsFormed DEF Cleared
  <1>4. Listed' /\ OneLocaliser' /\ Reported'
    BY <1>1, <1>2 DEF Listed, OneLocaliser, Reported, Up
  <1>5. Fresh' /\ Holding' /\ Spinning' /\ OnMap'
    BY <1>1, <1>2 DEF Fresh, Holding, Spinning, OnMap
  <1> QED BY <1>3, <1>4, <1>5

\* The main thread is not in the stop routine while the node spins.
LEMMA MainIdle ==
    ASSUME Typed, Kept, life = "spin"
    PROVE  ~MainStep
  BY DEF Kept, Spinning, MainStep, MainStops, StopProcess, Term, Exited, TermIgnored, Kill, KillIgnored,
         MainForgets, Forget, Inside, Close, Leave

\* The processes and what is reported of them are kept in order while the node
\* spins; once it is interrupted, for good, only the types are.
LEMMA Inductive == IInv /\ [Next]_vars => IInv'
  <1> SUFFICES ASSUME IInv, [Next]_vars PROVE IInv'
    OBVIOUS
  <1> USE DEF IInv
  <1>1. Typed'
    BY TypedKept
  <1> SUFFICES ASSUME life' = "spin" PROVE Kept'
    BY <1>1
  <1>2. life = "spin"
    <2>1. CASE UNCHANGED vars
      BY <2>1 DEF vars, main
    <2>2. CASE CmdStep \/ \E r \in Request : Receive(r)
      BY <2>2 DEF CmdStep, Reply, SetMode, SetMap, Save, List, Start, Register, CmdStops, CmdForgets, Receive,
         StopProcess, Term, Kill, Signal, Exited, TermIgnored, KillIgnored, OnlyStops, main
    <2>3. CASE MainStep
      BY <2>3 DEF MainStep, MainStops, MainForgets, Close, Leave,
         StopProcess, Term, Kill, Signal, Exited, TermIgnored, KillIgnored, OnlyStops, main
    <2>4. CASE Interrupt \/ \E p \in Pids : LeaderExits(p)
      BY <2>4 DEF Interrupt, LeaderExits, main
    <2> QED BY <2>1, <2>2, <2>3, <2>4 DEF Next
  <1>3. Kept
    BY <1>2
  <1>4. CASE \E r \in Request : Receive(r)
    BY <1>2, <1>3, <1>4, RequestKept
  <1>5. CASE Reply
    <2>1. todo = <<>> /\ UNCHANGED <<table, leader, mapOf, mode, curMap, todo, life, at, held, survivors>>
      BY <1>5 DEF Reply, procs, reports, stops, main
    <2>2. Cleared' /\ Listed' /\ OneLocaliser' /\ Reported'
      BY <1>3, <2>1 DEF Kept, Cleared, Listed, OneLocaliser, Reported, Registering, Up
    <2>3. Fresh' /\ Holding' /\ Spinning' /\ OnMap'
      BY <1>3, <2>1 DEF Kept, Fresh, Holding, Spinning, OnMap, Registering, Up
    <2> QED BY <2>2, <2>3 DEF Kept
  <1>6. CASE SetMode \/ SetMap \/ Save \/ List
    BY <1>2, <1>3, <1>6, ReportKept
  <1>7. CASE Start
    BY <1>1, <1>2, <1>3, <1>7, StartKept
  <1>8. CASE Register
    BY <1>2, <1>3, <1>8, RegisterKept
  <1>9. CASE CmdStops \/ StopProcess("cmd")
    BY <1>2, <1>3, <1>9, StopKept
  <1>10. CASE CmdForgets
    BY <1>2, <1>3, <1>10, ForgetKept
  <1>11. ASSUME NEW p \in Pids, LeaderExits(p) PROVE Kept'
    <2>1. /\ UNCHANGED <<table, todo, mode, curMap, serving, at, held, survivors>>
          /\ \A q \in Pids : Up(q)' => Up(q) /\ leader'[q] = leader[q] /\ mapOf'[q] = mapOf[q]
      BY <1>11 DEF LeaderExits, reports, command, stops, Up, Typed, Names
    <2>2. Cleared' /\ Listed' /\ Fresh' /\ OneLocaliser' /\ Reported' /\ OnMap'
      BY <1>2, <1>3, <2>1, Fewer
    <2>3. held["cmd"] \in Pids \cup {None}
      BY DEF Typed, Threads
    <2>4. Holding' /\ Spinning'
      BY <1>3, <2>1, <2>3 DEF Kept, Holding, Spinning, Up
    <2> QED BY <2>2, <2>4 DEF Kept
  <1>12. CASE MainStep \/ Interrupt
    BY <1>2, <1>3, <1>12, MainIdle DEF Interrupt
  <1>13. CASE UNCHANGED vars
    BY <1>3, <1>13 DEF vars, procs, reports, command, stops, main, Kept, Spinning, Cleared, Listed, Holding,
       Fresh, OneLocaliser, Reported, OnMap, Registering, Up
  <1> QED BY <1>4, <1>5, <1>6, <1>7, <1>8, <1>9, <1>10, <1>11, <1>12, <1>13 DEF Next, CmdStep

\* The invariant holds before the first request.
LEMMA Initially == Init => IInv
  <1> SUFFICES ASSUME Init PROVE IInv
    OBVIOUS
  <1> USE DEF Init
  <1>1. Typed
    BY NoSteps DEF Typed, Where, Threads
  <1>2. \A p \in Pids \cup {None} : ~Up(p)
    BY DEF Up, Names
  <1>3. Cleared /\ Listed /\ OneLocaliser /\ Reported
    BY <1>2, NoSteps DEF Cleared, Listed, OneLocaliser, Reported
  <1>4. Spinning /\ Holding /\ Fresh /\ OnMap
    BY DEF Spinning, Holding, Fresh, OnMap, Registering, Threads
  <1> QED BY <1>1, <1>3, <1>4 DEF IInv, Kept

\* The invariant holds in every state.
LEMMA Invariant == Spec => []IInv
  BY Initially, Inductive, PTL DEF Spec

-----------------------------------------------------------------------------
\* _switch_navigation_mode never has SLAM and nav2 localise the robot together
\* while the node spins, unless one of them outlasted SIGKILL.
THEOREM AlwaysOneLocaliser == Spec => []OneLocaliser
  <1>1. IInv => OneLocaliser
    BY DEF IInv, Kept, OneLocaliser
  <1> QED BY <1>1, Invariant, PTL

\* Every process that runs is in _managed_processes, is just being entered by
\* _start_managed_process, or outlasted SIGKILL.
THEOREM NothingEverForgotten == Spec => []NothingForgotten
  <1>1. ASSUME IInv PROVE NothingForgotten
    <2>1. ASSUME NEW n, Registering(n) PROVE Head(todo).op = "register"
      BY <1>1, <2>1, HeadKnown DEF IInv, Registering
    <2> QED BY <1>1, <2>1 DEF IInv, Kept, Listed, NothingForgotten
  <1> QED BY <1>1, Invariant, PTL

\* Between requests the mode that cmd_loop reports is not that of a robot in
\* the other mode, however the steps of the last request ended.
THEOREM ModeAlwaysTruthful == Spec => []ModeTruthful
  <1>1. IInv => ModeTruthful
    BY DEF IInv, Kept, Spinning, Reported, ModeTruthful, Registering
  <1> QED BY <1>1, Invariant, PTL

\* A nav2 that _switch_navigation_mode is about to report runs on the current map.
THEOREM NavAlwaysOnAskedMap == Spec => []NavOnAskedMap
  <1>1. ASSUME IInv PROVE NavOnAskedMap
    <2>1. todo = <<Do("mode", "nav2")>> => todo # <<>> /\ todo[1] = Do("mode", "nav2")
      OBVIOUS
    <2> QED BY <1>1, <2>1 DEF IInv, Kept, OnMap, NavOnAskedMap
  <1> QED BY <1>1, Invariant, PTL

-----------------------------------------------------------------------------
(* The shutdown without a request: the command thread rests, and the main  *)
(* thread takes every name that was in the table.                          *)

Resting == serving = "recv" /\ todo = <<>> /\ at["cmd"] = "out"

\* A process that runs is one the main thread still has to stop, or is stopping.
Remaining ==
    \A p \in Pids : Up(p) => \/ p \in survivors
                             \/ /\ table[leader[p]] = p
                                /\ \/ leader[p] \in left
                                   \/ at["main"] # "out" /\ victim = leader[p]

MainHolding ==
    /\ at["main"] # "out" =>
           /\ victim \in Names /\ held["main"] = table[victim] /\ life = "closing"
           /\ at["main"] = "pop" => ~Up(held["main"]) \/ held["main"] \in survivors
    /\ life \in {"closed", "exited"} => left = {}

Closing == life # "spin" /\ calm => Resting /\ Remaining /\ MainHolding

\* Nothing but the main thread and the end of a process changes what remains.
LEMMA MainStopKept ==
    ASSUME Typed, Resting, Remaining, MainHolding, StopProcess("main")
    PROVE  Resting' /\ Remaining' /\ MainHolding'
  <1>1. /\ UNCHANGED <<table, serving, todo, life, left, victim, held>>
        /\ at["main"] \notin {"out", "pop"} /\ at'["main"] # "out" /\ at'["cmd"] = at["cmd"]
        /\ survivors \subseteq survivors'
    BY DEF StopProcess, Term, Kill, Signal, Exited, TermIgnored, KillIgnored, Inside, OnlyStops, command, main,
       GoTo, Typed, Threads
  <1>2. \A p \in Pids \cup {None} : Up(p)' => Up(p) /\ leader'[p] = leader[p]
    <2>1. leader' = leader \/ \E p : Reap(p)
      BY DEF StopProcess, Term, Kill, Signal, Exited, TermIgnored, KillIgnored
    <2>2. ASSUME NEW p, Reap(p) PROVE \A q \in Pids : leader'[q] \in Names => leader'[q] = leader[q]
      BY <2>2 DEF Reap, Typed, Names
    <2> QED BY <2>1, <2>2, NoneIsNoPid DEF Up
  <1>3. at'["main"] = "pop" => ~Up(held["main"])' \/ held["main"] \in survivors'
    <2>1. held["main"] \in Pids \cup {None}
      BY DEF Typed, Threads
    <2>2. CASE Term("main") \/ Kill("main")
      BY <1>1, <2>2 DEF Term, Kill, Signal, GoTo, Typed, Threads, Up, Names
    <2>3. CASE Exited("main")
      BY <1>1, <1>2, <2>1, <2>3 DEF Exited
    <2>4. CASE TermIgnored("main") \/ KillIgnored("main")
      BY <1>1, <2>4 DEF TermIgnored, KillIgnored, GoTo, Typed, Threads
    <2> QED BY <2>2, <2>3, <2>4 DEF StopProcess
  <1>4. Remaining'
    BY <1>1, <1>2 DEF Remaining
  <1>5. Resting' /\ MainHolding'
    BY <1>1, <1>3 DEF Resting, MainHolding
  <1> QED BY <1>4, <1>5

\* destroy_node takes the next name to stop.
LEMMA MainLookKept ==
    ASSUME Typed, Resting, Remaining, MainHolding, MainStops
    PROVE  Resting' /\ Remaining' /\ MainHolding'
  <1>1. PICK n \in left : Look("main", n) /\ victim' = n /\ left' = left \ {n}
    BY DEF MainStops
  <1>2. /\ n \in Names /\ table[n] \in Pids \cup {None} /\ at["main"] = "out" /\ life = "closing"
        /\ UNCHANGED <<table, serving, todo, life, survivors>>
        /\ held'["main"] = table[n] /\ at'["cmd"] = at["cmd"]
        /\ at'["main"] = IF Up(table[n]) THEN "term" ELSE "pop"
    BY <1>1 DEF MainStops, Look, GoTo, command, Typed, Threads
  <1>3. \A p \in Pids \cup {None} : Up(p)' => Up(p) /\ leader'[p] = leader[p]
    BY <1>1, NoneIsNoPid DEF Look, Reap, Up, Typed, Names
  <1>4. Remaining'
    BY <1>1, <1>2, <1>3 DEF Remaining
  <1>5. Resting' /\ MainHolding'
    BY <1>1, <1>2, <1>3 DEF Resting, MainHolding
  <1> QED BY <1>4, <1>5

\* destroy_node has stopped one name.
LEMMA MainForgetKept ==
    ASSUME Typed, Resting, Remaining, MainHolding, MainForgets
    PROVE  Resting' /\ Remaining' /\ MainHolding'
  <1>1. /\ at["main"] = "pop" /\ victim \in Names /\ held["main"] = table[victim]
        /\ ~Up(held["main"]) \/ held["main"] \in survivors
        /\ table' = [table EXCEPT ![victim] = None]
        /\ at'["main"] = "out" /\ at'["cmd"] = at["cmd"]
        /\ UNCHANGED <<leader, serving, todo, life, left, survivors>>
    BY DEF MainHolding, MainForgets, Forget, Inside, GoTo, procs, command, main, Typed, Threads
  <1>2. Remaining'
    <2> SUFFICES ASSUME NEW p \in Pids, Up(p), p \notin survivors
                 PROVE  table'[leader[p]] = p /\ leader[p] \in left
      BY <1>1 DEF Remaining, Up
    <2>1. leader[p] # victim /\ leader[p] \in Names /\ leader[p] \in left /\ table[leader[p]] = p
      BY <1>1 DEF Remaining, Up
    <2> QED BY <1>1, <2>1 DEF Typed
  <1>3. Resting' /\ MainHolding'
    BY <1>1 DEF Resting, MainHolding
  <1> QED BY <1>2, <1>3

\* Every step keeps what a shutdown leaves to be stopped.
LEMMA ClosingKept ==
    ASSUME IInv, Closing, [Next]_vars
    PROVE  Closing'
  <1> SUFFICES ASSUME life' # "spin", calm' PROVE Resting' /\ Remaining' /\ MainHolding'
    BY DEF Closing
  <1> USE DEF IInv
  <1>1. CASE Interrupt
    <2>1. /\ serving = "recv" /\ life = "spin" /\ life' = "closing"
          /\ left' = {n \in Names : table[n] # None}
          /\ UNCHANGED <<table, leader, serving, todo, at, held, survivors>>
      BY <1>1 DEF Interrupt, procs, command, stops
    <2>2. todo = <<>> /\ at["cmd"] = "out" /\ at["main"] = "out" /\ Listed
      BY <2>1 DEF Kept, Spinning, Holding
    <2>3. \A n : ~Registering(n)
      BY <2>2 DEF Registering
    <2>4. Remaining'
      BY <2>1, <2>2, <2>3, NoneIsNoPid DEF Remaining, Listed, Up
    <2> QED BY <2>1, <2>2, <2>4 DEF Resting, MainHolding
  <1>2. ASSUME ~Interrupt, ~UNCHANGED vars, life = "spin" PROVE FALSE
    <2>1. CASE CmdStep \/ (\E r \in Request : Receive(r)) \/ \E p \in Pids : LeaderExits(p)
      BY <1>2, <2>1 DEF CmdStep, Reply, SetMode, SetMap, Save, List, Start, Register,
         CmdStops, CmdForgets, Receive, StopProcess, Term, Kill, Signal, Exited, TermIgnored,
         KillIgnored, OnlyStops, main, LeaderExits
    <2>2. CASE MainStep
      BY <1>2, <2>2, MainIdle
    <2> QED BY <1>2, <2>1, <2>2 DEF Next
  <1>3. ASSUME life # "spin", calm, ~UNCHANGED vars PROVE Resting' /\ Remaining' /\ MainHolding'
    <2> USE <1>3 DEF Closing
    <2>1. ~CmdStep /\ ~\E r \in Request : Receive(r)
      BY DEF Resting, CmdStep, Reply, SetMode, SetMap, Save, List, Start, Register, CmdStops, At,
         StopProcess, Term, Kill, Exited, TermIgnored, KillIgnored, Inside, CmdForgets, Forget, Receive
    <2>2. CASE MainStops
      BY <2>2, MainLookKept
    <2>3. CASE StopProcess("main")
      BY <2>3, MainStopKept
    <2>4. CASE MainForgets
      BY <2>4, MainForgetKept
    <2>5. CASE Close \/ Leave
      BY <2>5 DEF Close, Leave, Resting, Remaining, MainHolding, procs, command, stops, Up
    <2>6. CASE \E p \in Pids : LeaderExits(p)
      <3>1. /\ UNCHANGED <<table, serving, todo, at, held, life, left, victim, survivors>>
            /\ \A p \in Pids \cup {None} : Up(p)' => Up(p) /\ leader'[p] = leader[p]
        BY <2>6, NoneIsNoPid DEF LeaderExits, command, stops, main, Up, Typed, Names
      <3>2. held["main"] \in Pids \cup {None}
        BY DEF Typed, Threads
      <3> QED BY <3>1, <3>2 DEF Resting, Remaining, MainHolding
    <2> QED BY <2>1, <2>2, <2>3, <2>4, <2>5, <2>6 DEF Next, MainStep, Interrupt
  <1>4. calm \/ Interrupt \/ UNCHANGED vars
    BY DEF Next, CmdStep, Reply, SetMode, SetMap, Save, List, Start, Register, CmdStops, CmdForgets, Receive,
       MainStep, MainStops, MainForgets, Close, Leave, LeaderExits, Look,
       StopProcess, Term, Kill, Signal, Exited, TermIgnored, KillIgnored, OnlyStops
  <1>5. CASE UNCHANGED vars
    BY <1>5 DEF vars, procs, command, stops, main, Closing, Resting, Remaining, MainHolding, Up
  <1> QED BY <1>1, <1>2, <1>3, <1>4, <1>5

\* After a shutdown during which no request was served nothing runs that
\* destroy_node could have ended: each name of the table is stopped in turn,
\* also when the stop of one raises.
THEOREM NothingEverLeftBehind == Spec => []NothingLeftBehind
  <1>1. Init => Closing
    BY DEF Init, Closing
  <1>2. Spec => []Closing
    BY <1>1, ClosingKept, Invariant, PTL DEF Spec
  <1>3. ASSUME IInv, Closing PROVE NothingLeftBehind
    BY <1>3 DEF Closing, Remaining, MainHolding, NothingLeftBehind
  <1> QED BY <1>2, <1>3, Invariant, PTL

-----------------------------------------------------------------------------
(* No request and no shutdown goes on for ever: every step of a thread     *)
(* leaves fewer before it.  This is what RequestAnswered and ShutdownEnds  *)
(* rest on besides fairness.                                               *)

\* How far _stop_managed_process has come.
Passed(w) == IF w = "term" THEN 1 ELSE IF w = "wait" THEN 2 ELSE IF w = "kill" THEN 3
             ELSE IF w = "reap" THEN 4 ELSE IF w = "pop" THEN 5 ELSE 0

\* What is left of the request: at most six steps to stop a process, two to start one.
StepsLeft == 6 * Len(todo) - Passed(at["cmd"])
             - (IF todo # <<>> /\ todo[1].op = "register" THEN 1 ELSE 0)

\* Each step of the command thread brings its request nearer to the answer;
\* the main thread and the processes do not put it back.
EveryStepCounts ==
    [][serving = "work" /\ serving' = "work"
         => IF CmdStep THEN StepsLeft' < StepsLeft ELSE StepsLeft' = StepsLeft]_vars

\* No request takes more than thirty steps.
StepsBounded == serving = "work" => StepsLeft \in 0 .. 30

\* What is left of the shutdown: for each name still to be stopped as much as
\* a stop takes at most, what is left of the stop under way, and the end.
MainLeft == (IF "slam" \in left THEN 6 ELSE 0) + (IF "nav2" \in left THEN 6 ELSE 0)
            + (IF at["main"] = "out" THEN 0 ELSE 6 - Passed(at["main"]))
            + (IF life = "closing" THEN 2 ELSE IF life = "closed" THEN 1 ELSE 0)

\* Each step of the main thread brings the shutdown nearer to its end; the
\* command thread, which still serves, does not put it back.
EveryStopCounts ==
    [][life # "spin"
         => IF MainStep THEN MainLeft' < MainLeft ELSE MainLeft' = MainLeft]_vars

InStop == at["cmd"] # "out" => todo # <<>> /\ todo[1].op = "stop"

StepInv == Typed /\ InStop /\ Len(todo) <= 5

\* _stop_managed_process has five points between its steps.
LEMMA PassedType == \A w : Passed(w) \in 0 .. 5
  BY DEF Passed

\* A step that is done, or that fails, takes itself or the whole list away.
LEMMA ShorterCounts ==
    ASSUME StepInv, todo # <<>>, todo' = Tail(todo) \/ todo' = <<>>, at'["cmd"] = "out"
    PROVE  StepsLeft' < StepsLeft /\ Len(todo') <= 5
  <1>1. Len(todo) \in Nat /\ Len(todo) >= 1 /\ Len(todo) <= 5
    <2>1. 1 \in 1 .. Len(todo) /\ Len(todo) \in Nat
      BY HeadKnown DEF StepInv, Typed
    <2> QED BY <2>1 DEF StepInv
  <1>2. Len(todo') \in Nat /\ Len(todo') <= Len(todo) - 1
    <2>1. Len(Tail(todo)) = Len(todo) - 1 /\ Tail(todo) \in Seq(Steps)
      BY HeadKnown DEF StepInv, IsTail
    <2>2. Len(<<>>) = 0
      OBVIOUS
    <2> QED BY <1>1, <2>1, <2>2
  <1>3. StepsLeft >= 6 * Len(todo) - 5 /\ StepsLeft \in Int
    <2>1. CASE at["cmd"] = "out"
      <3>1. Passed(at["cmd"]) = 0
        BY <2>1 DEF Passed
      <3> QED BY <1>1, <3>1 DEF StepsLeft
    <2>2. CASE at["cmd"] # "out"
      <3>1. todo[1].op # "register"
        BY <2>2 DEF StepInv, InStop
      <3>2. Passed(at["cmd"]) \in 0 .. 5
        BY PassedType
      <3> QED BY <1>1, <3>1, <3>2 DEF StepsLeft
    <2> QED BY <2>1, <2>2
  <1>4. StepsLeft' <= 6 * Len(todo') /\ StepsLeft' \in Int
    <2>1. Passed(at'["cmd"]) = 0
      BY DEF Passed
    <2> QED BY <1>2, <2>1 DEF StepsLeft
  <1> QED BY <1>1, <1>2, <1>3, <1>4

\* A step inside _stop_managed_process goes on with it.
LEMMA StopCounts ==
    ASSUME Typed, NEW t \in Threads, StopProcess(t)
    PROVE  /\ UNCHANGED <<serving, todo, life, left>>
           /\ at[t] # "out" /\ at'[t] # "out"
           /\ Passed(at'[t]) > Passed(at[t])
           /\ \A u \in Threads \ {t} : at'[u] = at[u]
  BY DEF StopProcess, Term, Exited, TermIgnored, Kill, KillIgnored, Inside, Signal, GoTo,
         OnlyStops, command, main, Typed, Passed

\* The steps of the command thread that end a step of the request, and that
\* begin a stop or a start.
LEMMA CommandCounts ==
    ASSUME StepInv, CmdStep, ~Reply
    PROVE  StepsLeft' < StepsLeft /\ InStop' /\ Len(todo') <= 5
  <1> USE DEF procs, reports, command, stops, main
  <1>0. Len(todo) \in Nat /\ Len(todo) <= 5
    BY DEF StepInv, Typed
  <1>1. CASE SetMode \/ SetMap \/ Save \/ List
    <2>1. /\ todo # <<>> /\ (todo' = Tail(todo) \/ todo' = <<>>)
          /\ at'["cmd"] = "out"
      BY <1>1 DEF SetMode, SetMap, Save, List, At, CmdRuns, StepDone, StepFails
    <2> QED BY <2>1, ShorterCounts DEF InStop
  <1>2. CASE Start
    <2>1. /\ todo # <<>> /\ todo[1].op = "start" /\ Head(todo) = todo[1]
          /\ at["cmd"] = "out" /\ at'["cmd"] = "out"
      BY <1>2, HeadKnown DEF Start, At, CmdRuns, StepInv
    <2>2. CASE todo' = Tail(todo) \/ todo' = <<>>
      BY <2>1, <2>2, ShorterCounts DEF InStop
    <2>3. CASE \E p \in Pids : Launch(todo[1].arg, p)
      <3>1. todo' = <<Do("register", todo[1].arg)>> \o Tail(todo)
        BY <2>3 DEF Launch
      <3>2. /\ Len(todo) = 2 /\ Len(todo') = 2 /\ todo' \in Seq(Steps)
            /\ todo'[1] = Do("register", todo[1].arg)
        BY <2>1, <3>1, Launched DEF StepInv
      <3>3. todo' # <<>> /\ todo'[1].op = "register"
        BY <3>2 DEF Do
      <3>4. StepsLeft' = 6 * Len(todo') - 0 - 1
        BY <2>1, <3>3 DEF StepsLeft, Passed
      <3>5. StepsLeft = 6 * Len(todo) - 0 - 0
        BY <2>1 DEF StepsLeft, Passed
      <3>6. Len(todo') <= 5
        BY <3>2
      <3> QED BY <2>1, <3>2, <3>4, <3>5, <3>6 DEF InStop
    <2> QED BY <1>2, <2>1, <2>2, <2>3 DEF Start, StepDone, StepFails
  <1>3. CASE Register
    <2>1. /\ todo # <<>> /\ todo' = Tail(todo) /\ at'["cmd"] = "out"
      BY <1>3 DEF Register, At, CmdRuns, StepDone
    <2> QED BY <2>1, ShorterCounts DEF InStop
  <1>4. CASE CmdStops
    <2>1. /\ todo # <<>> /\ todo[1].op = "stop" /\ at["cmd"] = "out" /\ UNCHANGED todo
      BY <1>4, HeadKnown DEF CmdStops, At, CmdRuns, Look, StepInv
    <2>2. at'["cmd"] \in {"term", "pop"}
      BY <1>4 DEF CmdStops, Look, GoTo, StepInv, Typed, Threads
    <2>3. Passed(at["cmd"]) = 0 /\ Passed(at'["cmd"]) \in {1, 5}
      BY <2>1, <2>2 DEF Passed
    <2> QED BY <1>0, <2>1, <2>3 DEF StepsLeft, InStop
  <1>5. CASE StopProcess("cmd")
    <2>1. /\ UNCHANGED todo /\ at["cmd"] # "out" /\ at'["cmd"] # "out"
          /\ Passed(at'["cmd"]) > Passed(at["cmd"])
      BY <1>5, StopCounts DEF StepInv, Threads
    <2>2. Passed(at'["cmd"]) \in 0 .. 5 /\ Passed(at["cmd"]) \in 0 .. 5
      BY PassedType
    <2> QED BY <1>0, <2>1, <2>2 DEF StepsLeft, StepInv, InStop
  <1>6. CASE CmdForgets
    <2>1. /\ todo # <<>> /\ (todo' = Tail(todo) \/ todo' = <<>>)
          /\ at'["cmd"] = "out"
      BY <1>6, ForgetTyped DEF CmdForgets, Forget, Inside, StepDone, StepFails, StepInv, InStop,
                               Threads
    <2> QED BY <2>1, ShorterCounts DEF InStop
  <1> QED BY <1>1, <1>2, <1>3, <1>4, <1>5, <1>6 DEF CmdStep

\* The other thread, the processes and an interrupt leave a request as it is.
LEMMA RequestLeftAlone ==
    ASSUME Typed, [Next]_vars, ~CmdStep, ~(\E r \in Request : Receive(r))
    PROVE  todo' = todo /\ serving' = serving /\ at'["cmd"] = at["cmd"]
  <1> USE DEF procs, reports, command, stops, main
  <1>1. CASE StopProcess("main")
    BY <1>1, StopCounts DEF Threads
  <1>2. CASE MainForgets
    BY <1>2, ForgetTyped DEF MainForgets, Threads
  <1>3. CASE MainStops
    BY <1>3 DEF MainStops, Look, GoTo, Typed, Threads
  <1>4. CASE Close \/ Leave \/ Interrupt \/ UNCHANGED vars
    BY <1>4 DEF Close, Leave, Interrupt, vars
  <1>5. CASE \E p \in Pids : LeaderExits(p)
    BY <1>5 DEF LeaderExits
  <1> QED BY <1>1, <1>2, <1>3, <1>4, <1>5 DEF Next, MainStep

\* No request of cmd_loop has more than five steps.
LEMMA RequestsShort == \A r \in Request : r \in Seq(Steps) /\ Len(r) <= 5
  <1> SUFFICES ASSUME NEW r \in Request PROVE r \in Seq(Steps) /\ Len(r) <= 5
    OBVIOUS
  <1>0. r \in Seq(Steps)
    BY RequestsFormed
  <1>1. ToSlam \in Seq(Steps) /\ Len(ToSlam) = 3
    BY DEF ToSlam, Do, Steps, Names
  <1>2. CASE r = <<Do("stop", "slam")>> \o ToSlam
    <2>1. <<Do("stop", "slam")>> \in Seq(Steps) /\ Len(<<Do("stop", "slam")>>) = 1
      BY DEF Do, Steps, Names
    <2>2. Len(r) = Len(<<Do("stop", "slam")>>) + Len(ToSlam)
      BY <1>1, <1>2, <2>1, ConcatProperties, Zenon
    <2>3. \A n : n = 1 + 3 => n <= 5
      OBVIOUS
    <2> QED BY <1>0, <1>1, <2>1, <2>2, <2>3, Zenon
  <1>3. CASE r = ToSlam
    <2>1. \A t \in Seq(Steps) : Len(t) = 3 => Len(t) <= 5
      OBVIOUS
    <2> QED BY <1>0, <1>1, <1>3, <2>1, Zenon
  <1>4. ASSUME NEW m \in Maps \cup {NoMap}, r = ToNav2(m) PROVE Len(r) <= 5
    BY <1>4 DEF ToNav2
  <1>5. ASSUME NEW n \in Names, r = <<Do("stop", n), Do("mode", "idle")>> PROVE Len(r) <= 5
    BY <1>5
  <1>6. ASSUME NEW m \in Maps, r = <<Do("save", m)>> PROVE Len(r) <= 5
    BY <1>6
  <1>7. CASE r = <<Do("list", "idle")>> \/ r = <<>>
    BY <1>0, <1>7
  <1> QED BY <1>0, <1>2, <1>3, <1>4, <1>5, <1>6, <1>7 DEF Request

\* Every step keeps a stop under way the first step of its request.
LEMMA StepInvKept == StepInv /\ [Next]_vars => StepInv'
  <1> SUFFICES ASSUME StepInv, [Next]_vars PROVE StepInv'
    OBVIOUS
  <1>0. Typed'
    BY TypedKept DEF StepInv
  <1>1. ASSUME NEW r \in Request, Receive(r) PROVE StepInv'
    <2>1. todo' = r /\ at["cmd"] = "out" /\ at'["cmd"] = "out"
      BY <1>1 DEF Receive, CmdRuns, stops
    <2> QED BY <1>0, <2>1, RequestsShort DEF StepInv, InStop
  <1>2. CASE Reply
    BY <1>0, <1>2 DEF Reply, StepInv, InStop, stops
  <1>3. CASE CmdStep /\ ~Reply
    BY <1>0, <1>3, CommandCounts DEF StepInv
  <1>4. CASE ~CmdStep /\ ~(\E r \in Request : Receive(r))
    BY <1>0, <1>4, RequestLeftAlone DEF StepInv, InStop
  <1> QED BY <1>1, <1>2, <1>3, <1>4

\* A stop under way is the first step of its request in every state.
LEMMA StepInvAlways == Spec => []StepInv
  <1>1. Init => StepInv
    BY Initially DEF Init, IInv, StepInv, InStop, Threads
  <1> QED BY <1>1, StepInvKept, PTL DEF Spec

\* However a request is cut short and however long processes take to end,
\* thirty steps of the command thread are enough for it.
THEOREM StepsAlwaysBounded == Spec => []StepsBounded
  <1>1. StepInv => StepsBounded
    <2> SUFFICES ASSUME StepInv PROVE StepsLeft \in 0 .. 30
      BY DEF StepsBounded
    <2>1. Len(todo) \in Nat /\ Len(todo) <= 5 /\ Passed(at["cmd"]) \in 0 .. 5
      BY PassedType DEF StepInv, Typed
    <2>2. CASE todo = <<>>
      <3>1. Passed(at["cmd"]) = 0
        BY <2>2 DEF StepInv, InStop, Passed
      <3> QED BY <2>2, <3>1 DEF StepsLeft
    <2>3. CASE todo # <<>>
      <3>1. Len(todo) >= 1
        <4>1. 1 \in 1 .. Len(todo)
          BY <2>3, HeadKnown DEF StepInv
        <4> QED BY <2>1, <4>1
      <3>2. todo[1].op = "register" => Passed(at["cmd"]) = 0
        BY DEF StepInv, InStop, Passed
      <3>3. \A n \in 1 .. 5, p \in 0 .. 5 : /\ 6 * n - p - 0 \in 0 .. 30
                                           /\ 6 * n - 0 - 1 \in 0 .. 30
        OBVIOUS
      <3>4. Len(todo) \in 1 .. 5
        <4>1. \A n \in Nat : n >= 1 /\ n <= 5 => n \in 1 .. 5
          OBVIOUS
        <4> QED BY <2>1, <3>1, <4>1, Zenon
      <3>5. CASE todo[1].op = "register"
        <4>1. StepsLeft = 6 * Len(todo) - 0 - 1
          BY <2>3, <3>2, <3>5, Zenon DEF StepsLeft
        <4> QED BY <2>1, <3>3, <3>4, <4>1, Zenon
      <3>6. CASE todo[1].op # "register"
        <4>1. StepsLeft = 6 * Len(todo) - Passed(at["cmd"]) - 0
          BY <2>3, <3>6, Zenon DEF StepsLeft
        <4> QED BY <2>1, <3>3, <3>4, <4>1, Zenon
      <3> QED BY <3>5, <3>6
    <2> QED BY <2>2, <2>3
  <1> QED BY <1>1, StepInvAlways, PTL

\* The command thread never does a step of a request twice, whatever raises
\* and whatever the shutdown does beside it (cmd_loop, _stop_managed_process).
THEOREM StepsAlwaysCount == Spec => EveryStepCounts
  <1>1. StepInv /\ [Next]_vars
            => [serving = "work" /\ serving' = "work"
                  => IF CmdStep THEN StepsLeft' < StepsLeft ELSE StepsLeft' = StepsLeft]_vars
    <2> SUFFICES ASSUME StepInv, [Next]_vars, serving = "work", serving' = "work"
                 PROVE  IF CmdStep THEN StepsLeft' < StepsLeft ELSE StepsLeft' = StepsLeft
      OBVIOUS
    <2>1. ~Reply /\ ~(\E r \in Request : Receive(r))
      BY DEF Reply, Receive
    <2>2. CASE CmdStep
      BY <2>1, <2>2, CommandCounts
    <2>3. CASE ~CmdStep
      BY <2>1, <2>3, RequestLeftAlone DEF StepsLeft, StepInv
    <2> QED BY <2>2, <2>3
  <1> QED BY <1>1, StepInvAlways, PTL DEF Spec, EveryStepCounts

\* The shutdown tries each name once, with at most six steps for each, whatever
\* raises and whatever the command thread does beside it (destroy_node).
THEOREM StopsAlwaysCount == Spec => EveryStopCounts
  <1>1. IInv /\ [Next]_vars
            => [life # "spin"
                  => IF MainStep THEN MainLeft' < MainLeft ELSE MainLeft' = MainLeft]_vars
    <2> SUFFICES ASSUME Typed, [Next]_vars, life # "spin"
                 PROVE  IF MainStep THEN MainLeft' < MainLeft ELSE MainLeft' = MainLeft
      BY DEF IInv
    <2> USE DEF procs, reports, command, stops, main
    <2>1. Passed(at["main"]) \in 0 .. 5 /\ Passed(at'["main"]) \in 0 .. 5
      BY PassedType
    <2>2. CASE StopProcess("main")
      <3>1. /\ UNCHANGED <<life, left>> /\ at["main"] # "out" /\ at'["main"] # "out"
            /\ Passed(at'["main"]) > Passed(at["main"])
        BY <2>2, StopCounts DEF Threads
      <3> QED BY <2>1, <2>2, <3>1 DEF MainLeft, MainStep
    <2>3. CASE MainForgets
      <3>1. /\ UNCHANGED <<life, left>> /\ at["main"] = "pop" /\ at'["main"] = "out"
        BY <2>3 DEF MainForgets, Forget, Inside, GoTo, Typed, Threads
      <3>2. Passed(at["main"]) = 5
        BY <3>1 DEF Passed
      <3> QED BY <2>3, <3>1, <3>2 DEF MainLeft, MainStep
    <2>4. CASE MainStops
      <3>1. PICK n \in left : Look("main", n) /\ left' = left \ {n} /\ UNCHANGED life
        BY <2>4 DEF MainStops
      <3>2. at["main"] = "out" /\ at'["main"] \in {"term", "pop"}
        BY <2>4, <3>1 DEF MainStops, Look, GoTo, Typed, Threads
      <3>3. Passed(at'["main"]) \in {1, 5}
        BY <3>2 DEF Passed
      <3>4. CASE n = "slam"
        BY <2>4, <3>1, <3>2, <3>3, <3>4 DEF MainLeft, MainStep
      <3>5. CASE n = "nav2"
        BY <2>4, <3>1, <3>2, <3>3, <3>5 DEF MainLeft, MainStep
      <3> QED BY <3>1, <3>4, <3>5 DEF Typed, Names
    <2>5. CASE Close \/ Leave
      <3>1. UNCHANGED <<at, left>>
        BY <2>5 DEF Close, Leave
      <3>2. \/ life = "closing" /\ life' = "closed"
            \/ life = "closed" /\ life' = "exited"
        BY <2>5 DEF Close, Leave
      <3> QED BY <2>1, <2>5, <3>1, <3>2 DEF MainLeft, MainStep
    <2>6. CASE ~MainStep
      <3>1. UNCHANGED <<life, left>> /\ at'["main"] = at["main"]
        <4>1. CASE StopProcess("cmd")
          BY <4>1, StopCounts DEF Threads
        <4>2. CASE CmdForgets
          BY <4>2 DEF CmdForgets, Forget, GoTo, Typed, Threads
        <4>3. CASE CmdStops
          BY <4>3 DEF CmdStops, Look, GoTo, Typed, Threads
        <4>4. CASE Reply \/ SetMode \/ SetMap \/ Save \/ List \/ Start \/ Register
          BY <4>4 DEF Reply, SetMode, SetMap, Save, List, Start, Register
        <4>5. CASE (\E r \in Request : Receive(r)) \/ (\E p \in Pids : LeaderExits(p))
                   \/ UNCHANGED vars
          BY <4>5 DEF Receive, LeaderExits, vars
        <4>6. ~Interrupt
          BY DEF Interrupt
        <4> QED BY <2>6, <4>1, <4>2, <4>3, <4>4, <4>5, <4>6 DEF Next, CmdStep
      <3> QED BY <2>6, <3>1 DEF MainLeft
    <2> QED BY <2>2, <2>3, <2>4, <2>5, <2>6 DEF MainStep
  <1> QED BY <1>1, Invariant, PTL DEF Spec, EveryStopCounts
=============================================================================
