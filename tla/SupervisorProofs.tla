-------------------------- MODULE SupervisorProofs --------------------------
(***************************************************************************)
(* Proofs about Supervisor, for every set of ports, configurations and     *)
(* panel answers, and any number of tasks and socket faults.               *)
(***************************************************************************)
EXTENDS Supervisor, TLAPS

----------------------------------------------------------------------------
(* Listener tasks. *)

\* A spawned listener: JoinHandle, stop channel and what it listens to.
ListenerTask ==
  [port : Port, proto : Proto, config : Config,
   state : {"binding", "serving", "busy", "ended"}, stop : BOOLEAN]

\* ActiveUser, when the tasks spawned so far are D.
ActiveUser(D) == [config : Config, tasks : Seq(D)]

\* Tasks may move on, but none comes back to life, forgets that it was told to
\* stop, or listens to something else.
Later(ts, qs) ==
  /\ qs \in Seq(ListenerTask) /\ DOMAIN qs = DOMAIN ts
  /\ \A v \in DOMAIN ts :
       /\ qs[v].port = ts[v].port /\ qs[v].config = ts[v].config
       /\ ts[v].stop => qs[v].stop
       /\ ts[v].state = "ended" => qs[v].state = "ended"

\* A task that still needs somebody to stop it.
Running(ts, t) == ts[t].state # "ended" /\ ~ts[t].stop

\* The listeners of a port are the enabled ones.
LEMMA ProtosType == Protos \in Seq(Proto)
<1>1. Enabled("tcp") \in Seq(Proto) /\ Enabled("udp") \in Seq(Proto)
  BY DEF Enabled
<1>2. QED
  BY <1>1 DEF Protos

\* Sending a stop reaches one task and changes no other.
LEMMA StopReaches ==
  ASSUME NEW ts \in Seq(ListenerTask), NEW t \in DOMAIN ts, NEW qs, qs = StopSent(ts, t)
  PROVE  Later(ts, qs) /\ qs[t].stop = TRUE
<1>1. ts \in [1 .. Len(ts) -> ListenerTask] /\ Len(ts) \in Nat /\ DOMAIN ts = 1 .. Len(ts)
  OBVIOUS
<1>2. qs = [ts EXCEPT ![t] = [ts[t] EXCEPT !.stop = TRUE]]
  BY <1>1 DEF StopSent
<1>3. ts[t] \in ListenerTask
  BY <1>1
<1>4. /\ [ts[t] EXCEPT !.stop = TRUE] \in ListenerTask
      /\ [ts[t] EXCEPT !.stop = TRUE].port = ts[t].port
      /\ [ts[t] EXCEPT !.stop = TRUE].config = ts[t].config
      /\ [ts[t] EXCEPT !.stop = TRUE].state = ts[t].state
      /\ [ts[t] EXCEPT !.stop = TRUE].stop = TRUE
  BY <1>3 DEF ListenerTask
<1>5. qs \in [1 .. Len(ts) -> ListenerTask] /\ DOMAIN qs = DOMAIN ts
  BY <1>1, <1>2, <1>4
<1>6. qs \in Seq(ListenerTask)
  BY <1>1, <1>5
<1>7. \A v \in DOMAIN ts : v # t => qs[v] = ts[v]
  BY <1>1, <1>2
<1>8. qs[t] = [ts[t] EXCEPT !.stop = TRUE]
  BY <1>1, <1>2
<1>9. QED
  BY <1>4, <1>5, <1>6, <1>7, <1>8 DEF Later

\* A change of state that revives nothing.
LEMMA StateMoves ==
  ASSUME NEW ts \in Seq(ListenerTask), NEW t \in DOMAIN ts, ts[t].state # "ended",
         NEW st \in {"binding", "serving", "busy", "ended"},
         NEW qs, qs = [ts EXCEPT ![t].state = st]
  PROVE  Later(ts, qs)
<1>1. ts \in [1 .. Len(ts) -> ListenerTask] /\ Len(ts) \in Nat /\ DOMAIN ts = 1 .. Len(ts)
  OBVIOUS
<1>2. qs = [ts EXCEPT ![t] = [ts[t] EXCEPT !.state = st]]
  BY <1>1
<1>3. ts[t] \in ListenerTask
  BY <1>1
<1>4. /\ [ts[t] EXCEPT !.state = st] \in ListenerTask
      /\ [ts[t] EXCEPT !.state = st].port = ts[t].port
      /\ [ts[t] EXCEPT !.state = st].config = ts[t].config
      /\ [ts[t] EXCEPT !.state = st].stop = ts[t].stop
  BY <1>3 DEF ListenerTask
<1>5. qs \in [1 .. Len(ts) -> ListenerTask] /\ DOMAIN qs = DOMAIN ts
  BY <1>1, <1>2, <1>4
<1>6. qs \in Seq(ListenerTask)
  BY <1>1, <1>5
<1>7. \A v \in DOMAIN ts : v # t => qs[v] = ts[v]
  BY <1>1, <1>2
<1>8. qs[t] = [ts[t] EXCEPT !.state = st]
  BY <1>1, <1>2
<1>9. QED
  BY <1>4, <1>5, <1>6, <1>7, <1>8 DEF Later

\* What a listener task does by itself.
LEMMA TaskMoves ==
  ASSUME TypeOK, NEW t \in DOMAIN tasks, Task(t)
  PROVE  /\ Later(tasks, tasks') /\ UNCHANGED <<pc, loopVars, signalVars>>
         /\ lingering' \subseteq DOMAIN tasks /\ faults' \in 0 .. MaxFaults
<1>1. tasks \in Seq(ListenerTask) /\ lingering \subseteq DOMAIN tasks /\ faults \in 0 .. MaxFaults
  BY DEF TypeOK, ListenerTask
<1>2. UNCHANGED <<pc, loopVars, signalVars>>
  BY DEF Task, Bind, BindFails, SeeStop, ListenFails, Receive, Resume, PumpsDropped
<1>3. lingering' \subseteq DOMAIN tasks
  BY <1>1 DEF Task, Bind, BindFails, SeeStop, ListenFails, Receive, Resume, PumpsDropped, TaskEnds
<1>4. faults' \in 0 .. MaxFaults
  BY <1>1, SupervisorAssumption
  DEF Task, Bind, BindFails, SeeStop, ListenFails, Receive, Resume, PumpsDropped
<1>5. \/ tasks' = tasks
      \/ /\ tasks[t].state # "ended"
         /\ \E st \in {"binding", "serving", "busy", "ended"} : tasks' = [tasks EXCEPT ![t].state = st]
  BY DEF Task, Bind, BindFails, SeeStop, ListenFails, Receive, Resume, PumpsDropped, TaskEnds, SetState
<1>6. Later(tasks, tasks')
  <2>1. CASE tasks' = tasks
    BY <1>1, <2>1 DEF Later
  <2>2. CASE /\ tasks[t].state # "ended"
             /\ \E st \in {"binding", "serving", "busy", "ended"} : tasks' = [tasks EXCEPT ![t].state = st]
    BY <1>1, <2>2, StateMoves
  <2>3. QED
    BY <1>5, <2>1, <2>2
<1>7. QED
  BY <1>2, <1>3, <1>4, <1>6

----------------------------------------------------------------------------
(* Who stops which listener. *)

\* The task that stop() waits for has been told to stop.
FirstTold == stopping # << >> => tasks[Head(stopping)].stop = TRUE

\* Nothing is left half stopped, except by a process that ends meanwhile.
StopsComplete == pc \notin {"stopping", "exited"} => stopping = << >>

\* The part of the invariant that is about listeners.
ListenInv == TypeOK /\ FirstTold /\ StopsComplete /\ NoForgottenListener

\* Somebody is going to stop task t.
Kept(t) ==
  \/ \E k \in DOMAIN stopping : stopping[k] = t
  \/ /\ tasks[t].port \in DOMAIN active
     /\ active[tasks[t].port].config = tasks[t].config
     /\ \E k \in DOMAIN active[tasks[t].port].tasks : active[tasks[t].port].tasks[k] = t

\* NoForgottenListener in these words.
LEMMA NoneForgotten == NoForgottenListener <=> \A t \in DOMAIN tasks : Running(tasks, t) => Kept(t)
BY DEF NoForgottenListener, Running, Kept

\* Types of the tasks and the entries, with their names.
LEMMA TaskTypes ==
  ASSUME TypeOK
  PROVE  /\ tasks \in Seq(ListenerTask) /\ IsMap(active, Port, ActiveUser(DOMAIN tasks))
         /\ stopping \in Seq(DOMAIN tasks) /\ Len(tasks) \in Nat /\ DOMAIN tasks = 1 .. Len(tasks)
<1>1. tasks \in Seq(ListenerTask) /\ IsMap(active, Port, ActiveUser(DOMAIN tasks))
  BY DEF TypeOK, ListenerTask, ActiveUser
<1>2. QED
  BY <1>1 DEF TypeOK

\* When only tasks move on, nobody is forgotten and nothing loses its type.
LEMMA ListenersMoveOn ==
  ASSUME ListenInv, Later(tasks, tasks'), UNCHANGED <<active, stopping, rows, todo, repeated, after>>,
         lingering' \subseteq DOMAIN tasks, faults' \in 0 .. MaxFaults,
         pc' \in {"starting", "select", "polling", "reporting", "sync", "stopping", "stop_all", "exited"},
         pc' \notin {"stopping", "exited"} => stopping = << >>,
         watching' \in BOOLEAN, signalled' \in BOOLEAN, installed' \in BOOLEAN, term' \in BOOLEAN
  PROVE  ListenInv'
<1>1. tasks' \in Seq(ListenerTask) /\ DOMAIN tasks' = DOMAIN tasks
  BY DEF Later
<1>2. TypeOK'
  BY <1>1 DEF ListenInv, TypeOK, ListenerTask
<1>3. FirstTold'
  <2>1. stopping # << >> => Head(stopping) \in DOMAIN tasks
    BY TaskTypes DEF ListenInv
  <2>2. QED
    BY <2>1 DEF ListenInv, FirstTold, Later
<1>4. NoForgottenListener'
  <2>1. ASSUME NEW t \in DOMAIN tasks, Running(tasks', t) PROVE Kept(t)'
    <3>1. Running(tasks, t)
      BY <2>1 DEF Running, Later
    <3>2. Kept(t)
      BY <3>1, NoneForgotten DEF ListenInv
    <3>3. tasks'[t].port = tasks[t].port /\ tasks'[t].config = tasks[t].config
      BY DEF Later
    <3>4. QED
      BY <3>2, <3>3 DEF Kept
  <2>2. (\A t \in DOMAIN tasks : Running(tasks, t) => Kept(t))'
    BY <1>1, <2>1
  <2>3. (\A t \in DOMAIN tasks : Running(tasks, t) => Kept(t))' => NoForgottenListener'
    BY NoneForgotten, PTL
  <2>4. QED
    BY <2>2, <2>3
<1>5. StopsComplete'
  BY DEF StopsComplete
<1>6. QED
  BY <1>2, <1>3, <1>4, <1>5 DEF ListenInv

\* ActiveUser::stop takes over all the listeners of the entry that leaves.
LEMMA BeginStopListeners ==
  ASSUME ListenInv, NEW p \in DOMAIN active, NEW then \in {"sync", "stop_all"},
         pc \in {"sync", "stop_all"}, BeginStop(p, then)
  PROVE  ListenInv'
<1> DEFINE ls == active[p].tasks
<1>1. /\ active' = Without(active, p) /\ stopping' = ls
      /\ tasks' = IF ls = << >> THEN tasks ELSE StopSent(tasks, Head(ls))
      /\ after' = then /\ pc' = "stopping"
      /\ UNCHANGED <<rows, repeated, todo, lingering, faults, watching, signalled, installed, term>>
  BY DEF BeginStop, signalVars
<1>2. /\ TypeOK /\ stopping = << >> /\ tasks \in Seq(ListenerTask)
      /\ IsMap(active, Port, ActiveUser(DOMAIN tasks)) /\ DOMAIN tasks = 1 .. Len(tasks)
  BY TaskTypes DEF ListenInv, StopsComplete
<1>3. ls \in Seq(DOMAIN tasks)
  BY <1>2 DEF IsMap, ActiveUser
<1>4. Later(tasks, tasks') /\ (ls # << >> => tasks'[Head(ls)].stop = TRUE)
  <2>1. CASE ls = << >>
    BY <1>1, <1>2, <2>1 DEF Later
  <2>2. CASE ls # << >>
    <3>1. Head(ls) \in DOMAIN tasks
      BY <1>3, <2>2
    <3>2. QED
      BY <1>1, <1>2, <2>2, <3>1, StopReaches
  <2>3. QED
    BY <2>1, <2>2
<1>5. DOMAIN tasks' = DOMAIN tasks /\ tasks' \in Seq(ListenerTask)
  BY <1>4 DEF Later
<1>6. /\ DOMAIN active' = DOMAIN active \ {p} /\ \A q \in DOMAIN active' : active'[q] = active[q]
      /\ IsMap(active', Port, ActiveUser(DOMAIN tasks'))
  <2> DEFINE A == ActiveUser(DOMAIN tasks)
  <2>1. IsMap(active, Port, A) /\ A = ActiveUser(DOMAIN tasks')
    BY <1>2, <1>5
  <2> HIDE DEF A
  <2>2. /\ DOMAIN active' = DOMAIN active \ {p} /\ \A q \in DOMAIN active' : active'[q] = active[q]
        /\ IsMap(active', Port, A)
    BY <1>1, <2>1 DEF IsMap, Without, Restrict
  <2>3. QED
    BY <2>1, <2>2
<1> HIDE DEF ls
<1>7. TypeOK'
  BY <1>1, <1>2, <1>3, <1>5, <1>6 DEF TypeOK, ListenerTask, ActiveUser
<1>8. FirstTold' /\ StopsComplete'
  BY <1>1, <1>4 DEF FirstTold, StopsComplete
<1>9. NoForgottenListener'
  <2>1. ASSUME NEW t \in DOMAIN tasks, Running(tasks', t) PROVE Kept(t)'
    <3>1. /\ Running(tasks, t) /\ tasks'[t].port = tasks[t].port
          /\ tasks'[t].config = tasks[t].config
      BY <1>4, <2>1 DEF Running, Later
    <3>2. Kept(t)
      BY <3>1, NoneForgotten DEF ListenInv
    <3>3. /\ tasks[t].port \in DOMAIN active
          /\ active[tasks[t].port].config = tasks[t].config
          /\ \E k \in DOMAIN active[tasks[t].port].tasks : active[tasks[t].port].tasks[k] = t
      BY <1>2, <3>2 DEF Kept
    <3>4. CASE tasks[t].port = p
      BY <1>1, <3>3, <3>4 DEF Kept, ls
    <3>5. CASE tasks[t].port # p
      BY <1>6, <3>1, <3>3, <3>5 DEF Kept
    <3>6. QED
      BY <3>4, <3>5
  <2>2. (\A t \in DOMAIN tasks : Running(tasks, t) => Kept(t))'
    BY <1>5, <2>1
  <2>3. (\A t \in DOMAIN tasks : Running(tasks, t) => Kept(t))' => NoForgottenListener'
    BY NoneForgotten, PTL
  <2>4. QED
    BY <2>2, <2>3
<1>10. QED
  BY <1>7, <1>8, <1>9 DEF ListenInv

\* The tail of a sequence holds its entries from the second on.
LEMMA TailOf ==
  ASSUME NEW S, NEW s \in Seq(S), s # << >>
  PROVE  /\ Tail(s) \in Seq(S) /\ Head(s) = s[1]
         /\ \A k \in DOMAIN s : k # 1 => k - 1 \in DOMAIN Tail(s) /\ Tail(s)[k - 1] = s[k]
<1>1. Tail(s) \in Seq(S) /\ Head(s) = s[1] /\ Len(Tail(s)) = Len(s) - 1
  OBVIOUS
<1>2. \A k \in DOMAIN s : k # 1 => k - 1 \in 1 .. Len(s) - 1
  OBVIOUS
<1>3. \A j \in 1 .. Len(s) - 1 : Tail(s)[j] = s[j + 1]
  OBVIOUS
<1>4. QED
  BY <1>1, <1>2, <1>3

\* Going on to the next listener leaves the one that was waited for told.
LEMMA StopNextListeners ==
  ASSUME ListenInv, StopNext
  PROVE  ListenInv'
<1>1. /\ pc = "stopping" /\ stopping # << >> /\ stopping' = Tail(stopping)
      /\ tasks' = IF Tail(stopping) = << >> THEN tasks ELSE StopSent(tasks, Head(Tail(stopping)))
      /\ UNCHANGED <<pc, rows, repeated, todo, active, after, lingering, faults,
                     watching, signalled, installed, term>>
  BY DEF StopNext, signalVars
<1>2. /\ TypeOK /\ tasks \in Seq(ListenerTask) /\ stopping \in Seq(DOMAIN tasks)
      /\ tasks[Head(stopping)].stop = TRUE
  BY <1>1, TaskTypes DEF ListenInv, FirstTold
<1>3. /\ Tail(stopping) \in Seq(DOMAIN tasks) /\ Head(stopping) = stopping[1]
      /\ \A k \in DOMAIN stopping : k # 1 => k - 1 \in DOMAIN Tail(stopping)
                                             /\ Tail(stopping)[k - 1] = stopping[k]
  BY <1>1, <1>2, TailOf
<1>4. /\ Later(tasks, tasks')
      /\ Tail(stopping) # << >> => tasks'[Head(Tail(stopping))].stop = TRUE
  <2>1. CASE Tail(stopping) = << >>
    BY <1>1, <1>2, <2>1 DEF Later
  <2>2. CASE Tail(stopping) # << >>
    <3>1. Head(Tail(stopping)) \in DOMAIN tasks
      BY <1>3, <2>2
    <3>2. QED
      BY <1>1, <1>2, <2>2, <3>1, StopReaches
  <2>3. QED
    BY <2>1, <2>2
<1>5. DOMAIN tasks' = DOMAIN tasks /\ tasks' \in Seq(ListenerTask)
  BY <1>4 DEF Later
<1>6. TypeOK'
  BY <1>1, <1>2, <1>3, <1>5 DEF TypeOK, ListenerTask
<1>7. FirstTold' /\ StopsComplete'
  BY <1>1, <1>4 DEF FirstTold, StopsComplete
<1>8. NoForgottenListener'
  <2>1. ASSUME NEW t \in DOMAIN tasks, Running(tasks', t) PROVE Kept(t)'
    <3>1. /\ Running(tasks, t) /\ tasks'[t].port = tasks[t].port
          /\ tasks'[t].config = tasks[t].config
      BY <1>4, <2>1 DEF Running, Later
    <3>2. Kept(t)
      BY <3>1, NoneForgotten DEF ListenInv
    <3>3. CASE \E k \in DOMAIN stopping : stopping[k] = t
      <4>1. PICK k \in DOMAIN stopping : stopping[k] = t
        BY <3>3
      <4>2. k # 1
        BY <1>2, <1>3, <3>1, <4>1 DEF Running
      <4>3. QED
        BY <1>1, <1>3, <4>1, <4>2 DEF Kept
    <3>4. CASE ~ \E k \in DOMAIN stopping : stopping[k] = t
      BY <1>1, <3>1, <3>2, <3>4 DEF Kept
    <3>5. QED
      BY <3>3, <3>4
  <2>2. (\A t \in DOMAIN tasks : Running(tasks, t) => Kept(t))'
    BY <1>5, <2>1
  <2>3. (\A t \in DOMAIN tasks : Running(tasks, t) => Kept(t))' => NoForgottenListener'
    BY NoneForgotten, PTL
  <2>4. QED
    BY <2>2, <2>3
<1>9. QED
  BY <1>6, <1>7, <1>8 DEF ListenInv

\* The rows a sync works through are rows.
LEMMA RowTypes ==
  ASSUME TypeOK
  PROVE  /\ rows \in Seq(Row)
         /\ \A i \in todo : i \in DOMAIN rows /\ rows[i].port \in Port /\ rows[i].config \in Config
<1>1. rows \in Seq(Row)
  <2>1. << >> \in Seq(Row)
    OBVIOUS
  <2>2. rows \in Listings \/ rows = << >>
    BY DEF TypeOK
  <2>3. Listings \subseteq Seq(Row)
    BY SupervisorAssumption
  <2>4. QED
    BY <2>1, <2>2, <2>3
<1>2. \A i \in DOMAIN rows : rows[i] \in Row
  BY <1>1
<1>3. QED
  BY <1>1, <1>2 DEF TypeOK, Row

\* A new entry has every listener that is spawned with it.
LEMMA SpawnListeners ==
  ASSUME ListenInv, NEW i, SpawnListener(i)
  PROVE  ListenInv'
<1> DEFINE p == rows[i].port
           c == rows[i].config
           n == Len(Protos)
           new == NewTasks(p, c)
           ls == [k \in 1 .. n |-> Len(tasks) + k]
<1>1. /\ pc = "sync" /\ i \in todo /\ p \notin DOMAIN active
      /\ tasks' = tasks \o new
      /\ active' = Put(active, p, [config |-> c, tasks |-> ls])
      /\ todo' = todo \ {i}
      /\ UNCHANGED <<pc, rows, repeated, stopping, after, lingering, faults,
                     watching, signalled, installed, term>>
  BY DEF SpawnListener, NextRow, signalVars
<1>2. /\ TypeOK /\ stopping = << >> /\ tasks \in Seq(ListenerTask)
      /\ IsMap(active, Port, ActiveUser(DOMAIN tasks))
      /\ Len(tasks) \in Nat /\ DOMAIN tasks = 1 .. Len(tasks)
  BY <1>1, TaskTypes DEF ListenInv, StopsComplete
<1>3. p \in Port /\ c \in Config
  BY <1>1, <1>2, RowTypes
<1>4. n \in Nat /\ \A k \in 1 .. n : Protos[k] \in Proto
  BY ProtosType
<1>5. /\ \A k \in 1 .. n : /\ new[k] \in ListenerTask
                           /\ new[k].port = p /\ new[k].config = c
      /\ new = [k \in 1 .. n |-> new[k]]
  <2> HIDE DEF p, c
  <2>1. new = [k \in 1 .. n |-> [port |-> p, proto |-> Protos[k], config |-> c,
                                 state |-> "binding", stop |-> FALSE]]
    BY DEF NewTasks
  <2>2. QED
    BY <1>3, <1>4, <2>1 DEF ListenerTask
<1> HIDE DEF p, c, n, new
<1>6. new \in Seq(ListenerTask) /\ Len(new) = n
  <2>1. new \in [1 .. n -> ListenerTask]
    BY <1>5
  <2>2. QED
    BY <1>4, <2>1
<1>7. /\ tasks' \in Seq(ListenerTask) /\ DOMAIN tasks' = 1 .. Len(tasks) + n
      /\ \A t \in DOMAIN tasks : tasks'[t] = tasks[t]
      /\ \A k \in 1 .. n : tasks'[Len(tasks) + k] = new[k]
  BY <1>1, <1>2, <1>4, <1>6
<1>8. DOMAIN tasks \subseteq DOMAIN tasks' /\ ls \in Seq(DOMAIN tasks') /\ DOMAIN ls = 1 .. n
  <2>1. \A k \in 1 .. n : Len(tasks) + k \in DOMAIN tasks'
    BY <1>2, <1>4, <1>7
  <2>2. ls \in [1 .. n -> DOMAIN tasks']
    BY <2>1
  <2>3. ls \in Seq(DOMAIN tasks')
    BY <1>4, <2>2
  <2>4. QED
    BY <1>2, <1>4, <1>7, <2>3
<1>9. /\ IsMap(active', Port, ActiveUser(DOMAIN tasks'))
      /\ DOMAIN active' = DOMAIN active \cup {p} /\ active'[p] = [config |-> c, tasks |-> ls]
      /\ \A q \in DOMAIN active : active'[q] = active[q]
  <2> DEFINE A == ActiveUser(DOMAIN tasks')
  <2>1. \A q \in DOMAIN active : active[q] \in A
    <3>1. \A q \in DOMAIN active : active[q] \in ActiveUser(DOMAIN tasks)
      BY <1>2 DEF IsMap
    <3>2. Seq(DOMAIN tasks) \subseteq Seq(DOMAIN tasks')
      BY <1>8
    <3>3. QED
      BY <3>1, <3>2 DEF ActiveUser
  <2>2. [config |-> c, tasks |-> ls] \in A
    BY <1>3, <1>8 DEF ActiveUser
  <2> HIDE DEF A, ls
  <2>3. DOMAIN active \subseteq Port
    BY <1>2 DEF IsMap
  <2>4. /\ IsMap(active', Port, A)
        /\ DOMAIN active' = DOMAIN active \cup {p} /\ active'[p] = [config |-> c, tasks |-> ls]
        /\ \A q \in DOMAIN active : active'[q] = active[q]
    BY <1>1, <1>3, <2>1, <2>2, <2>3 DEF IsMap, Put
  <2>5. QED
    BY <2>4 DEF A
<1>10. TypeOK'
  <2>1. stopping' \in Seq(DOMAIN tasks') /\ lingering' \subseteq DOMAIN tasks'
    BY <1>1, <1>2, <1>8 DEF TypeOK
  <2>2. todo' \subseteq DOMAIN rows'
    BY <1>1, <1>2 DEF TypeOK
  <2>3. QED
    BY <1>1, <1>2, <1>7, <1>9, <2>1, <2>2 DEF TypeOK, ListenerTask, ActiveUser
<1>11. FirstTold' /\ StopsComplete'
  BY <1>1, <1>2 DEF FirstTold, StopsComplete
<1>12. NoForgottenListener'
  <2>1. ASSUME NEW t \in DOMAIN tasks', Running(tasks', t) PROVE Kept(t)'
    <3>1. CASE t \in DOMAIN tasks
      <4>1. Kept(t)
        BY <1>7, <2>1, <3>1, NoneForgotten DEF ListenInv, Running
      <4>2. /\ tasks[t].port \in DOMAIN active
            /\ active[tasks[t].port].config = tasks[t].config
            /\ \E k \in DOMAIN active[tasks[t].port].tasks : active[tasks[t].port].tasks[k] = t
        BY <1>2, <4>1 DEF Kept
      <4>3. QED
        BY <1>7, <1>9, <3>1, <4>2 DEF Kept
    <3>2. CASE t \notin DOMAIN tasks
      <4>1. PICK k \in 1 .. n : t = Len(tasks) + k
        <5>1. t - Len(tasks) \in 1 .. n /\ t = Len(tasks) + (t - Len(tasks))
          BY <1>2, <1>4, <1>7, <2>1, <3>2
        <5>2. QED
          BY <5>1
      <4>2. tasks'[t].port = p /\ tasks'[t].config = c
        BY <1>5, <1>7, <4>1
      <4>3. k \in DOMAIN ls /\ ls[k] = t
        BY <4>1
      <4>4. active'[p].config = c /\ active'[p].tasks = ls /\ p \in DOMAIN active'
        BY <1>9
      <4> HIDE DEF ls
      <4>5. QED
        BY <4>2, <4>3, <4>4 DEF Kept
    <3>3. QED
      BY <3>1, <3>2
  <2>2. (\A t \in DOMAIN tasks : Running(tasks, t) => Kept(t))'
    BY <2>1
  <2>3. (\A t \in DOMAIN tasks : Running(tasks, t) => Kept(t))' => NoForgottenListener'
    BY NoneForgotten, PTL
  <2>4. QED
    BY <2>2, <2>3
<1>13. QED
  BY <1>10, <1>11, <1>12 DEF ListenInv

\* Skipping or keeping a row, or new rows, change no listener.
LEMMA RowsMoveOn ==
  ASSUME ListenInv, UNCHANGED <<active, stopping, after, taskVars, signalVars>>,
         rows' \in Listings \cup {<< >>}, repeated' \in BOOLEAN, todo' \subseteq DOMAIN rows',
         pc \notin {"stopping", "exited"}, pc' \in {pc, "sync"}
  PROVE  ListenInv'
<1>1. UNCHANGED <<active, stopping, after, tasks, lingering, faults, watching, signalled, installed, term>>
  BY DEF taskVars, signalVars
<1>2. TypeOK'
  BY <1>1 DEF ListenInv, TypeOK
<1>3. FirstTold' /\ StopsComplete' /\ NoForgottenListener'
  BY <1>1 DEF ListenInv, FirstTold, StopsComplete, NoForgottenListener
<1>4. QED
  BY <1>2, <1>3 DEF ListenInv

\* The process starts without listeners.
LEMMA InitListen == Init => ListenInv
<1> SUFFICES ASSUME Init PROVE ListenInv
  OBVIOUS
<1>1. DOMAIN << >> = {}
  OBVIOUS
<1>2. TypeOK
  <2>1. faults \in 0 .. MaxFaults
    BY SupervisorAssumption DEF Init
  <2>2. IsMap(active, Port, [config : Config, tasks : Seq(DOMAIN tasks)])
    <3> DEFINE A == [config : Config, tasks : Seq(DOMAIN tasks)]
    <3> HIDE DEF A
    <3>1. IsMap(active, Port, A)
      BY DEF Init, IsMap
    <3>2. QED
      BY <3>1 DEF A
  <2>3. rows \in Listings \cup {<< >>} /\ todo \subseteq DOMAIN rows /\ lingering \subseteq DOMAIN tasks
    BY DEF Init
  <2>4. stopping \in Seq(DOMAIN tasks)
    BY DEF Init
  <2>5. tasks \in Seq(ListenerTask)
    BY DEF Init
  <2>6. QED
    BY <2>1, <2>2, <2>3, <2>4, <2>5 DEF Init, TypeOK, ListenerTask
<1>3. QED
  BY <1>1, <1>2 DEF Init, ListenInv, FirstTold, StopsComplete, NoForgottenListener

\* Every step keeps it so.
LEMMA NextListen == ListenInv /\ [Next]_vars => ListenInv'
<1> SUFFICES ASSUME ListenInv, [Next]_vars PROVE ListenInv'
  OBVIOUS
<1>1. TypeOK /\ tasks \in Seq(ListenerTask)
  BY TaskTypes DEF ListenInv
<1>2. Later(tasks, tasks)
  BY <1>1 DEF Later
<1>3. ASSUME UNCHANGED <<loopVars, taskVars>>,
             pc' \in {"starting", "select", "polling", "reporting", "sync", "stopping", "stop_all", "exited"},
             pc' \notin {"stopping", "exited"} => stopping = << >>,
             watching' \in BOOLEAN, signalled' \in BOOLEAN, installed' \in BOOLEAN, term' \in BOOLEAN
      PROVE  ListenInv'
  <2>1. Later(tasks, tasks') /\ UNCHANGED <<active, stopping, rows, todo, repeated, after>>
    BY <1>2, <1>3 DEF loopVars, taskVars
  <2>2. lingering' \subseteq DOMAIN tasks /\ faults' \in 0 .. MaxFaults
    BY <1>1, <1>3 DEF TypeOK, taskVars
  <2>3. QED
    BY <1>3, <2>1, <2>2, ListenersMoveOn
<1>4. CASE Loop \/ Sigterm \/ UNCHANGED vars \/ SyncFail \/ SyncDone \/ StopFinished \/ Exit
  <2>1. UNCHANGED <<loopVars, taskVars>>
    BY <1>4 DEF Loop, RecordEvent, PollTick, ReportTick, Branch, ReportDone, PollSignal, Shutdown,
                Sigterm, vars, SyncFail, SyncDone, StopFinished, Exit
  <2>2. watching' \in BOOLEAN /\ signalled' \in BOOLEAN /\ installed' \in BOOLEAN /\ term' \in BOOLEAN
    BY <1>1, <1>4 DEF TypeOK, Loop, RecordEvent, PollTick, ReportTick, Branch, ReportDone, PollSignal,
                Shutdown, Sigterm, vars, signalVars, SyncFail, SyncDone, StopFinished, Exit
  <2>3. /\ pc' \in {"starting", "select", "polling", "reporting", "sync", "stopping", "stop_all", "exited"}
        /\ pc' \notin {"stopping", "exited"} => pc \notin {"stopping", "exited"} \/ stopping = << >>
    BY <1>1, <1>4 DEF TypeOK, Loop, RecordEvent, PollTick, ReportTick, Branch, ReportDone, PollSignal,
                Shutdown, Sigterm, vars, SyncFail, SyncDone, StopFinished, Exit
  <2>4. pc' \notin {"stopping", "exited"} => stopping = << >>
    BY <2>3 DEF ListenInv, StopsComplete
  <2>5. QED
    BY <1>3, <2>1, <2>2, <2>3, <2>4
<1>5. ASSUME NEW rs \in Listings, SyncFetched(rs) PROVE ListenInv'
  <2>1. /\ UNCHANGED <<active, stopping, after, taskVars, signalVars>> /\ rows' = rs
        /\ repeated' = (pc = "polling" /\ rs = rows) /\ todo' = ListenerRows(rs) /\ pc' = "sync"
        /\ pc \in {"starting", "polling"}
    BY <1>5 DEF SyncFetched
  <2>2. ListenerRows(rs) \subseteq DOMAIN rs
    BY DEF ListenerRows
  <2>3. QED
    BY <2>1, <2>2, RowsMoveOn
<1>6. ASSUME NEW i \in todo, SkipUnsupported(i) \/ KeepListener(i) PROVE ListenInv'
  <2>1. /\ UNCHANGED <<pc, rows, repeated, active, stopping, after, taskVars, signalVars>>
        /\ todo' = todo \ {i} /\ pc = "sync"
    BY <1>6 DEF SkipUnsupported, KeepListener, NextRow
  <2>2. rows' \in Listings \cup {<< >>} /\ repeated' \in BOOLEAN /\ todo' \subseteq DOMAIN rows'
    BY <1>1, <2>1 DEF TypeOK
  <2>3. QED
    BY <2>1, <2>2, RowsMoveOn
<1>7. ASSUME NEW i \in todo, RestartListener(i) PROVE ListenInv'
  BY <1>7, BeginStopListeners DEF RestartListener, NextRow
<1>8. ASSUME NEW i \in todo, SpawnListener(i) PROVE ListenInv'
  BY <1>8, SpawnListeners
<1>9. CASE (\E p \in DOMAIN active : RemoveStale(p)) \/ (\E p \in DOMAIN active : StopAll(p))
  BY <1>9, BeginStopListeners DEF RemoveStale, StopAll
<1>10. CASE StopNext
  BY <1>10, StopNextListeners
<1>11. ASSUME NEW t \in DOMAIN tasks, Task(t) PROVE ListenInv'
  <2>1. /\ Later(tasks, tasks') /\ UNCHANGED <<pc, loopVars, signalVars>>
        /\ lingering' \subseteq DOMAIN tasks /\ faults' \in 0 .. MaxFaults
    BY <1>1, <1>11, TaskMoves
  <2>2. UNCHANGED <<active, stopping, rows, todo, repeated, after>>
    BY <2>1 DEF loopVars
  <2>3. /\ pc' \in {"starting", "select", "polling", "reporting", "sync", "stopping", "stop_all", "exited"}
        /\ watching' \in BOOLEAN /\ signalled' \in BOOLEAN /\ installed' \in BOOLEAN /\ term' \in BOOLEAN
    BY <1>1, <2>1 DEF TypeOK, signalVars
  <2>4. pc' \notin {"stopping", "exited"} => stopping = << >>
    BY <2>1 DEF ListenInv, StopsComplete
  <2>5. QED
    BY <2>1, <2>2, <2>3, <2>4, ListenersMoveOn
<1>12. QED
  BY <1>4, <1>5, <1>6, <1>7, <1>8, <1>9, <1>10, <1>11 DEF Next, Sync, Stopping

----------------------------------------------------------------------------
(* What a sync has achieved so far. *)

\* The entries belong to the rows: no shutdown has begun.
Syncing ==
  pc \in {"select", "polling", "reporting", "sync"} \/ (pc = "stopping" /\ after = "sync")

Idle == pc \in {"select", "polling", "reporting"}

\* Of two rows for a port the earlier one is handled first.
InOrder ==
  \A i \in ListenerRows(rows) \ todo, j \in todo : rows[i].port = rows[j].port => i < j

\* The port of a row that has been handled has an entry, unless a later row has
\* taken it away and is going to put its own there.
Covered ==
  \A i \in ListenerRows(rows) \ todo : Supported(rows, i) =>
    rows[i].port \in DOMAIN active \/ \E j \in todo : Supported(rows, j) /\ rows[j].port = rows[i].port

\* A row that decides keeps its entry once it has been handled.
Settled ==
  \A i \in ListenerRows(rows) \ todo : DecidingRow(i) => SameFingerprint(rows[i].port, rows[i].config)

\* The part of the invariant that is about a sync.
SyncInv ==
  /\ Idle => todo = {} /\ DOMAIN active \subseteq LivePorts
  /\ Syncing => todo \subseteq ListenerRows(rows) /\ InOrder /\ Covered /\ Settled

\* Carriers are merged: no two of the rows that listen share a port.
LEMMA CarriersMerged ==
  ASSUME NEW rs \in Seq(Row), NEW i \in ListenerRows(rs), NEW j \in ListenerRows(rs),
         rs[i].carrier, rs[i].port = rs[j].port
  PROVE  i = j
<1>1. \E k \in DOMAIN rs : rs[k].carrier
  BY DEF ListenerRows
<1>2. /\ rs[i].carrier /\ FirstOfPort(rs, i) /\ rs[j].carrier /\ FirstOfPort(rs, j)
      /\ i \in 1 .. Len(rs) /\ j \in 1 .. Len(rs) /\ Len(rs) \in Nat
  BY <1>1 DEF ListenerRows
<1>3. ~(i < j) /\ ~(j < i)
  BY <1>2 DEF FirstOfPort
<1>4. QED
  BY <1>2, <1>3

\* A row a listener comes from gives a live port.
LEMMA RowsLive ==
  ASSUME NEW i \in ListenerRows(rows), Supported(rows, i)
  PROVE  rows[i].port \in LivePorts
BY DEF LivePorts

\* Handling a row keeps the order.
LEMMA StillInOrder ==
  ASSUME TypeOK, InOrder, todo \subseteq ListenerRows(rows), NEW i, NextRow(i),
         rows' = rows, todo' = todo \ {i}
  PROVE  InOrder'
<1>1. rows \in Seq(Row) /\ i \in todo /\ todo \subseteq DOMAIN rows
  BY RowTypes DEF NextRow, TypeOK
<1> SUFFICES ASSUME NEW k \in ListenerRows(rows) \ (todo \ {i}), NEW j \in todo \ {i},
                    rows[k].port = rows[j].port
             PROVE  k < j
  BY DEF InOrder
<1>2. CASE k # i
  BY <1>2 DEF InOrder
<1>3. CASE k = i
  <2>1. ~rows[i].carrier
    <3>1. SUFFICES ASSUME rows[i].carrier PROVE FALSE
      OBVIOUS
    <3>2. i = j
      BY <1>1, <1>3, <3>1, CarriersMerged
    <3>3. QED
      BY <3>2
  <2>2. i <= j
    BY <2>1 DEF NextRow
  <2>3. i \in Nat /\ j \in Nat /\ i # j
    BY <1>1
  <2>4. QED
    BY <1>3, <2>2, <2>3
<1>4. QED
  BY <1>2, <1>3

\* A row still to be handled cannot disturb one that decides and is done.
LEMMA DecidedPort ==
  ASSUME TypeOK, InOrder, todo \subseteq ListenerRows(rows), NEW i \in todo, Supported(rows, i),
         NEW k \in ListenerRows(rows) \ todo, DecidingRow(k)
  PROVE  rows[k].port # rows[i].port
<1>1. SUFFICES ASSUME rows[k].port = rows[i].port PROVE FALSE
  OBVIOUS
<1>2. i <= k
  BY <1>1 DEF DecidingRow
<1>3. k < i
  BY <1>1 DEF InOrder
<1>4. i \in Nat /\ k \in Nat
  <2>1. rows \in Seq(Row) /\ k \in DOMAIN rows /\ i \in DOMAIN rows
    BY RowTypes DEF ListenerRows
  <2>2. QED
    BY <2>1
<1>5. QED
  BY <1>2, <1>3, <1>4

\* Steps that leave rows and entries alone.
LEMMA SyncKept ==
  ASSUME SyncInv, UNCHANGED <<rows, todo, active>>, Syncing' => Syncing,
         Idle' => Idle \/ (todo = {} /\ StalePorts = {})
  PROVE  SyncInv'
<1>1. /\ LivePorts' = LivePorts /\ ListenerRows(rows') = ListenerRows(rows)
      /\ \A i : DecidingRow(i)' <=> DecidingRow(i)
      /\ \A q, c : SameFingerprint(q, c)' <=> SameFingerprint(q, c)
  BY DEF LivePorts, DecidingRow, SameFingerprint
<1>2. Idle' => todo = {} /\ DOMAIN active \subseteq LivePorts
  BY DEF SyncInv, StalePorts
<1>3. InOrder /\ Covered /\ Settled => InOrder' /\ Covered' /\ Settled'
  BY <1>1 DEF InOrder, Covered, Settled
<1>4. QED
  BY <1>1, <1>2, <1>3 DEF SyncInv

\* A row is handled: skipped, kept or spawned.
LEMMA RowHandled ==
  ASSUME TypeOK, SyncInv, NEW i, NextRow(i), rows' = rows, todo' = todo \ {i}, pc' = pc,
         DOMAIN active \subseteq DOMAIN active',
         \A q \in DOMAIN active : q # rows[i].port \/ ~Supported(rows, i) => active'[q] = active[q],
         Supported(rows, i) => /\ rows[i].port \in DOMAIN active'
                               /\ active'[rows[i].port].config = rows[i].config
  PROVE  SyncInv'
<1>1. pc = "sync" /\ i \in todo /\ Syncing /\ ~Idle'
  BY DEF NextRow, Syncing, Idle
<1>2. todo \subseteq ListenerRows(rows) /\ InOrder /\ Covered /\ Settled
  BY <1>1 DEF SyncInv
<1>3. InOrder'
  BY <1>2, StillInOrder
<1>4. Covered'
  <2>1. ASSUME NEW k \in ListenerRows(rows) \ (todo \ {i}), Supported(rows, k)
        PROVE  \/ rows[k].port \in DOMAIN active'
               \/ \E j \in todo \ {i} : Supported(rows, j) /\ rows[j].port = rows[k].port
    <3>1. CASE k = i
      BY <2>1, <3>1
    <3>2. CASE k # i
      <4>1. rows[k].port \in DOMAIN active \/ \E j \in todo : Supported(rows, j) /\ rows[j].port = rows[k].port
        BY <1>2, <2>1, <3>2 DEF Covered
      <4>2. CASE rows[k].port \in DOMAIN active
        BY <4>2
      <4>3. ASSUME NEW j \in todo, Supported(rows, j), rows[j].port = rows[k].port
            PROVE  \/ rows[k].port \in DOMAIN active'
                   \/ \E l \in todo \ {i} : Supported(rows, l) /\ rows[l].port = rows[k].port
        <5>1. CASE j = i
          BY <4>3, <5>1
        <5>2. CASE j # i
          BY <4>3, <5>2
        <5>3. QED
          BY <5>1, <5>2
      <4>4. QED
        BY <4>1, <4>2, <4>3
    <3>3. QED
      BY <3>1, <3>2
  <2>2. QED
    BY <2>1 DEF Covered, Supported
<1>5. Settled'
  <2>1. ASSUME NEW k \in ListenerRows(rows) \ (todo \ {i}), DecidingRow(k)
        PROVE  rows[k].port \in DOMAIN active' /\ active'[rows[k].port].config = rows[k].config
    <3>1. CASE k = i
      BY <2>1, <3>1 DEF DecidingRow
    <3>2. CASE k # i
      <4>1. rows[k].port \in DOMAIN active /\ active[rows[k].port].config = rows[k].config
        BY <1>2, <2>1, <3>2 DEF Settled, SameFingerprint
      <4>2. rows[k].port # rows[i].port \/ ~Supported(rows, i)
        BY <1>1, <1>2, <2>1, <3>2, DecidedPort
      <4>3. QED
        BY <4>1, <4>2
    <3>3. QED
      BY <3>1, <3>2
  <2>2. \A k : DecidingRow(k)' <=> DecidingRow(k)
    BY DEF DecidingRow
  <2>3. QED
    BY <2>1, <2>2 DEF Settled, SameFingerprint
<1>6. QED
  BY <1>1, <1>2, <1>3, <1>4, <1>5 DEF SyncInv

\* An entry goes: a later row wants its port, or no row does.
LEMMA EntryDropped ==
  ASSUME TypeOK, SyncInv, pc = "sync", NEW p, BeginStop(p, "sync"),
         p \notin LivePorts \/ \E i \in todo : Supported(rows, i) /\ rows[i].port = p
  PROVE  SyncInv'
<1>1. /\ rows' = rows /\ todo' = todo /\ ~Idle' /\ Syncing
      /\ DOMAIN active' = DOMAIN active \ {p} /\ \A q \in DOMAIN active' : active'[q] = active[q]
  BY DEF BeginStop, Without, Restrict, Syncing, Idle
<1>2. todo \subseteq ListenerRows(rows) /\ InOrder /\ Covered /\ Settled
  BY <1>1 DEF SyncInv
<1>3. InOrder'
  BY <1>1, <1>2 DEF InOrder
<1>4. Covered'
  <2>1. ASSUME NEW k \in ListenerRows(rows) \ todo, Supported(rows, k)
        PROVE  \/ rows[k].port \in DOMAIN active'
               \/ \E j \in todo : Supported(rows, j) /\ rows[j].port = rows[k].port
    <3>1. CASE rows[k].port = p
      BY <2>1, <3>1, RowsLive
    <3>2. CASE rows[k].port # p
      BY <1>1, <1>2, <2>1, <3>2 DEF Covered
    <3>3. QED
      BY <3>1, <3>2
  <2>2. QED
    BY <1>1, <2>1 DEF Covered, Supported
<1>5. Settled'
  <2>1. ASSUME NEW k \in ListenerRows(rows) \ todo, DecidingRow(k)
        PROVE  rows[k].port \in DOMAIN active' /\ active'[rows[k].port].config = rows[k].config
    <3>1. rows[k].port \in DOMAIN active /\ active[rows[k].port].config = rows[k].config
      BY <1>2, <2>1 DEF Settled, SameFingerprint
    <3>2. rows[k].port # p
      <4>1. CASE p \notin LivePorts
        BY <2>1, <4>1, RowsLive DEF DecidingRow
      <4>2. CASE \E i \in todo : Supported(rows, i) /\ rows[i].port = p
        BY <1>2, <2>1, <4>2, DecidedPort
      <4>3. QED
        BY <4>1, <4>2
    <3>3. QED
      BY <1>1, <3>1, <3>2
  <2>2. \A k : DecidingRow(k)' <=> DecidingRow(k)
    BY <1>1 DEF DecidingRow
  <2>3. QED
    BY <1>1, <2>1, <2>2 DEF Settled, SameFingerprint
<1>6. QED
  BY <1>1, <1>2, <1>3, <1>4, <1>5 DEF SyncInv

\* Every step of the loop keeps what a sync has achieved.
LEMMA NextSync == TypeOK /\ SyncInv /\ [Next]_vars => SyncInv'
<1> SUFFICES ASSUME TypeOK, SyncInv, [Next]_vars PROVE SyncInv'
  OBVIOUS
<1>1. CASE Loop \/ Sigterm \/ UNCHANGED vars \/ SyncFail \/ SyncDone \/ StopFinished \/ Exit
  <2>1. UNCHANGED <<rows, todo, active, after>>
    BY <1>1 DEF Loop, RecordEvent, PollTick, ReportTick, Branch, ReportDone, PollSignal, Shutdown,
                Sigterm, vars, loopVars, SyncFail, SyncDone, StopFinished, Exit
  <2>2. Syncing' => Syncing
    BY <1>1, <2>1 DEF TypeOK, Loop, RecordEvent, PollTick, ReportTick, Branch, ReportDone, PollSignal, Shutdown,
                Sigterm, vars, SyncFail, SyncDone, StopFinished, Exit, Syncing
  <2>3. Idle' => Idle \/ (todo = {} /\ StalePorts = {})
    BY <1>1 DEF TypeOK, Loop, RecordEvent, PollTick, ReportTick, Branch, ReportDone, PollSignal, Shutdown,
                Sigterm, vars, SyncFail, SyncDone, StopFinished, Exit, Idle
  <2>4. QED
    BY <2>1, <2>2, <2>3, SyncKept
<1>2. ASSUME NEW rs \in Listings, SyncFetched(rs) PROVE SyncInv'
  <2>1. rows' = rs /\ todo' = ListenerRows(rs) /\ pc' = "sync"
    BY <1>2 DEF SyncFetched
  <2>2. ListenerRows(rows') \ todo' = {} /\ ~Idle'
    BY <2>1 DEF Idle
  <2>3. InOrder' /\ Covered' /\ Settled'
    BY <2>2 DEF InOrder, Covered, Settled
  <2>4. QED
    BY <2>1, <2>2, <2>3 DEF SyncInv
<1>3. ASSUME NEW i \in todo, SkipUnsupported(i) PROVE SyncInv'
  <2>1. NextRow(i) /\ ~Supported(rows, i) /\ todo' = todo \ {i} /\ UNCHANGED <<pc, rows, active>>
    BY <1>3 DEF SkipUnsupported
  <2>2. QED
    BY <2>1, RowHandled
<1>4. ASSUME NEW i \in todo, KeepListener(i) PROVE SyncInv'
  <2>1. /\ NextRow(i) /\ SameFingerprint(rows[i].port, rows[i].config)
        /\ todo' = todo \ {i} /\ UNCHANGED <<pc, rows, active>>
    BY <1>4 DEF KeepListener
  <2>2. rows[i].port \in DOMAIN active' /\ active'[rows[i].port].config = rows[i].config
    BY <2>1 DEF SameFingerprint
  <2>3. QED
    BY <2>1, <2>2, RowHandled
<1>5. ASSUME NEW i \in todo, RestartListener(i) PROVE SyncInv'
  <2>1. pc = "sync" /\ Supported(rows, i) /\ BeginStop(rows[i].port, "sync")
    BY <1>5 DEF RestartListener, NextRow
  <2>2. QED
    BY <1>5, <2>1, EntryDropped
<1>6. ASSUME NEW i \in todo, SpawnListener(i) PROVE SyncInv'
  <2> DEFINE ls == [k \in 1 .. Len(Protos) |-> Len(tasks) + k]
  <2>1. /\ NextRow(i) /\ todo' = todo \ {i} /\ pc' = pc /\ rows' = rows
        /\ rows[i].port \notin DOMAIN active
        /\ active' = Put(active, rows[i].port, [config |-> rows[i].config, tasks |-> ls])
    BY <1>6 DEF SpawnListener
  <2> HIDE DEF ls
  <2>2. /\ DOMAIN active \subseteq DOMAIN active' /\ \A q \in DOMAIN active : active'[q] = active[q]
        /\ rows[i].port \in DOMAIN active' /\ active'[rows[i].port].config = rows[i].config
    BY <2>1 DEF Put
  <2>3. QED
    BY <2>1, <2>2, RowHandled
<1>7. ASSUME NEW p \in DOMAIN active, RemoveStale(p) PROVE SyncInv'
  BY <1>7, EntryDropped DEF RemoveStale, StalePorts
<1>8. ASSUME NEW p \in DOMAIN active, StopAll(p) PROVE SyncInv'
  BY <1>8 DEF StopAll, BeginStop, SyncInv, Syncing, Idle
<1>9. CASE StopNext \/ \E t \in DOMAIN tasks : Task(t)
  <2>1. UNCHANGED <<pc, rows, todo, active, after>>
    BY <1>9, TaskMoves DEF StopNext, loopVars
  <2>2. QED
    BY <2>1, SyncKept DEF Syncing, Idle
<1>10. QED
  BY <1>1, <1>2, <1>3, <1>4, <1>5, <1>6, <1>7, <1>8, <1>9 DEF Next, Sync, Stopping

\* A process that starts has nothing to converge to.
LEMMA InitSync == Init => SyncInv
BY DEF Init, SyncInv, Syncing, Idle

----------------------------------------------------------------------------
\* The inductive invariant.
SupervisorInv == ListenInv /\ SyncInv

\* The inductive invariant holds in every behaviour of the supervisor.
THEOREM SupervisorInvariant == Spec => []SupervisorInv
<1>1. Init => SupervisorInv
  BY InitListen, InitSync DEF SupervisorInv
<1>2. SupervisorInv /\ [Next]_vars => SupervisorInv'
  BY NextListen, NextSync DEF SupervisorInv, ListenInv
<1>3. QED
  BY <1>1, <1>2, PTL DEF Spec

\* Types: entries and pending stops name tasks that were spawned.
THEOREM SupervisorTypeCorrect == Spec => []TypeOK
<1>1. SupervisorInv => TypeOK
  BY DEF SupervisorInv, ListenInv
<1>2. QED
  BY <1>1, SupervisorInvariant, PTL

\* No listener is forgotten: one that was neither told to stop nor has ended
\* belongs to the entry of its port, or is about to be told.
THEOREM NoForgottenListenerHolds == Spec => []NoForgottenListener
<1>1. SupervisorInv => NoForgottenListener
  BY DEF SupervisorInv, ListenInv
<1>2. QED
  BY <1>1, SupervisorInvariant, PTL

\* Back in the select loop the entries are those the last rows call for,
\* whatever rows the panel sent, plain users that share a port included.
THEOREM SyncConvergesHolds == Spec => []SyncConverges
<1>1. SupervisorInv => SyncConverges
  <2> SUFFICES ASSUME SupervisorInv, pc = "select"
               PROVE  /\ DOMAIN active = LivePorts
                      /\ \A i \in DOMAIN rows : DecidingRow(i) => active[rows[i].port].config = rows[i].config
    BY DEF SyncConverges
  <2>1. todo = {} /\ DOMAIN active \subseteq LivePorts /\ Covered /\ Settled
    BY DEF SupervisorInv, SyncInv, Idle, Syncing
  <2>2. LivePorts \subseteq DOMAIN active
    BY <2>1 DEF LivePorts, Covered
  <2>3. \A i \in DOMAIN rows : DecidingRow(i) => active[rows[i].port].config = rows[i].config
    BY <2>1 DEF Settled, DecidingRow, SameFingerprint
  <2>4. QED
    BY <2>1, <2>2, <2>3
<1>2. QED
  BY <1>1, SupervisorInvariant, PTL

----------------------------------------------------------------------------
(* Restarts. *)

\* Plain users that share a port have one configuration.  Nothing in sync_users
\* sees to that: without a carrier every user gets a listener of its own.
PlainPortsAgree ==
  \A rs \in Listings : (\A i \in DOMAIN rs : ~rs[i].carrier) =>
    \A i, j \in DOMAIN rs :
      Supported(rs, i) /\ Supported(rs, j) /\ rs[i].port = rs[j].port => rs[i].config = rs[j].config

\* An entry has the configuration of every row for its port handled so far.
Matched ==
  \A i \in ListenerRows(rows) \ todo :
    Supported(rows, i) /\ rows[i].port \in DOMAIN active => active[rows[i].port].config = rows[i].config

\* Every row already has its listener, and every listener its row.
UpToDate ==
  /\ \A i \in ListenerRows(rows) : Supported(rows, i) => SameFingerprint(rows[i].port, rows[i].config)
  /\ DOMAIN active \subseteq LivePorts

\* The part of the invariant that is about restarts.
RepeatInv ==
  /\ Syncing => Matched
  /\ repeated /\ pc = "sync" => UpToDate
  /\ NoNeedlessRestart

\* Rows for one port agree.
LEMMA RowsAgree ==
  ASSUME PlainPortsAgree, TypeOK, NEW i \in ListenerRows(rows), NEW j \in ListenerRows(rows),
         Supported(rows, i), Supported(rows, j), rows[i].port = rows[j].port
  PROVE  rows[i].config = rows[j].config
<1>1. rows \in Seq(Row) /\ i \in DOMAIN rows /\ j \in DOMAIN rows
  BY RowTypes DEF ListenerRows
<1>2. rows \in Listings
  BY <1>1 DEF TypeOK
<1>3. CASE rows[i].carrier
  BY <1>1, <1>3, CarriersMerged
<1>4. CASE ~rows[i].carrier
  <2>1. \A k \in DOMAIN rows : ~rows[k].carrier
    BY <1>4 DEF ListenerRows
  <2>2. QED
    BY <1>1, <1>2, <2>1 DEF PlainPortsAgree
<1>5. QED
  BY <1>3, <1>4

\* Every step keeps it so.
LEMMA NextRepeat ==
  ASSUME PlainPortsAgree, TypeOK, SyncInv, RepeatInv, [Next]_vars
  PROVE  RepeatInv'
<1>1. ASSUME UNCHANGED <<rows, repeated, todo, active, after>>,
             Syncing' => Syncing, pc' = "sync" => pc = "sync" \/ (pc = "stopping" /\ after = "sync"),
             pc' = "stopping" => pc = "stopping"
      PROVE  RepeatInv'
  <2>1. Syncing' => Matched'
    BY <1>1 DEF RepeatInv, Matched
  <2>2. repeated' /\ pc' = "sync" => UpToDate'
    <3>1. repeated /\ pc' = "sync" => pc = "sync"
      BY <1>1 DEF RepeatInv, NoNeedlessRestart
    <3>2. UpToDate => UpToDate'
      BY <1>1 DEF UpToDate, LivePorts, SameFingerprint
    <3>3. QED
      BY <1>1, <3>1, <3>2 DEF RepeatInv
  <2>3. NoNeedlessRestart'
    BY <1>1 DEF RepeatInv, NoNeedlessRestart
  <2>4. QED
    BY <2>1, <2>2, <2>3 DEF RepeatInv
<1>2. CASE Loop \/ Sigterm \/ UNCHANGED vars \/ SyncFail \/ SyncDone \/ StopFinished \/ Exit \/ StopNext
           \/ \E t \in DOMAIN tasks : Task(t)
  <2>1. UNCHANGED <<rows, repeated, todo, active, after>>
    BY <1>2, TaskMoves DEF Loop, RecordEvent, PollTick, ReportTick, Branch, ReportDone, PollSignal,
                Shutdown, Sigterm, vars, loopVars, SyncFail, SyncDone, StopFinished, Exit, StopNext
  <2>2. /\ Syncing' => Syncing
        /\ pc' = "sync" => pc = "sync" \/ (pc = "stopping" /\ after = "sync")
        /\ pc' = "stopping" => pc = "stopping"
    BY <1>2, <2>1, TaskMoves DEF TypeOK, Loop, RecordEvent, PollTick, ReportTick, Branch, ReportDone,
                PollSignal, Shutdown, Sigterm, vars, SyncFail, SyncDone, StopFinished, Exit, StopNext, Syncing
  <2>3. QED
    BY <1>1, <2>1, <2>2
<1>3. ASSUME NEW rs \in Listings, SyncFetched(rs) PROVE RepeatInv'
  <2>1. /\ rows' = rs /\ todo' = ListenerRows(rs) /\ pc' = "sync" /\ active' = active
        /\ repeated' = (pc = "polling" /\ rs = rows)
    BY <1>3 DEF SyncFetched
  <2>2. Matched'
    BY <2>1 DEF Matched
  <2>3. ASSUME repeated' PROVE UpToDate'
    <3>1. rs = rows /\ Idle /\ Syncing
      BY <2>1, <2>3 DEF Idle, Syncing
    <3>2. todo = {} /\ DOMAIN active \subseteq LivePorts /\ Covered /\ Matched
      BY <3>1 DEF SyncInv, RepeatInv
    <3>3. UpToDate
      BY <3>2 DEF UpToDate, Covered, Matched, SameFingerprint
    <3>4. rows' = rows
      BY <2>1, <3>1
    <3>5. QED
      BY <2>1, <3>3, <3>4 DEF UpToDate, LivePorts, SameFingerprint
  <2>4. QED
    BY <2>1, <2>2, <2>3 DEF RepeatInv, NoNeedlessRestart
<1>4. ASSUME NEW i \in todo, SkipUnsupported(i) \/ KeepListener(i) PROVE RepeatInv'
  <2>1. /\ pc = "sync" /\ UNCHANGED <<pc, rows, repeated, active>> /\ todo' = todo \ {i}
        /\ Supported(rows, i) => SameFingerprint(rows[i].port, rows[i].config)
    BY <1>4 DEF SkipUnsupported, KeepListener, NextRow
  <2>2. Matched
    BY <2>1 DEF RepeatInv, Syncing
  <2>3. ASSUME NEW k \in ListenerRows(rows) \ (todo \ {i}), Supported(rows, k), rows[k].port \in DOMAIN active
        PROVE  active[rows[k].port].config = rows[k].config
    <3>1. CASE k = i
      BY <2>1, <2>3, <3>1 DEF SameFingerprint
    <3>2. CASE k # i
      BY <2>2, <2>3, <3>2 DEF Matched
    <3>3. QED
      BY <3>1, <3>2
  <2>4. Matched'
    BY <2>1, <2>3 DEF Matched, Supported
  <2>5. UpToDate => UpToDate'
    BY <2>1 DEF UpToDate, LivePorts, SameFingerprint
  <2>6. QED
    BY <2>1, <2>4, <2>5 DEF RepeatInv, NoNeedlessRestart
<1>5. ASSUME NEW p, pc = "sync", BeginStop(p, "sync"),
             \/ p \notin LivePorts /\ p \in DOMAIN active
             \/ \E i \in todo : Supported(rows, i) /\ ~SameFingerprint(rows[i].port, rows[i].config)
      PROVE  RepeatInv'
  <2>1. /\ rows' = rows /\ todo' = todo /\ repeated' = repeated /\ pc' = "stopping"
        /\ DOMAIN active' = DOMAIN active \ {p} /\ \A q \in DOMAIN active' : active'[q] = active[q]
    BY <1>5 DEF BeginStop, Without, Restrict
  <2>2. ~repeated
    <3>1. SUFFICES ASSUME repeated PROVE FALSE
      OBVIOUS
    <3>2. UpToDate /\ todo \subseteq ListenerRows(rows)
      BY <1>5, <3>1 DEF RepeatInv, SyncInv, Syncing
    <3>3. QED
      BY <1>5, <3>2 DEF UpToDate
  <2>3. Matched'
    BY <1>5, <2>1 DEF RepeatInv, Syncing, Matched, Supported
  <2>4. QED
    BY <2>1, <2>2, <2>3 DEF RepeatInv, NoNeedlessRestart
<1>6. ASSUME NEW i \in todo, RestartListener(i) PROVE RepeatInv'
  BY <1>5, <1>6 DEF RestartListener, NextRow
<1>7. ASSUME NEW p \in DOMAIN active, RemoveStale(p) PROVE RepeatInv'
  BY <1>5, <1>7 DEF RemoveStale, StalePorts
<1>8. ASSUME NEW i \in todo, SpawnListener(i) PROVE RepeatInv'
  <2> DEFINE ls == [k \in 1 .. Len(Protos) |-> Len(tasks) + k]
  <2>1. /\ pc = "sync" /\ todo' = todo \ {i} /\ pc' = pc /\ rows' = rows /\ repeated' = repeated
        /\ Supported(rows, i) /\ rows[i].port \notin DOMAIN active
        /\ active' = Put(active, rows[i].port, [config |-> rows[i].config, tasks |-> ls])
    BY <1>8 DEF SpawnListener, NextRow
  <2> HIDE DEF ls
  <2>2. /\ DOMAIN active' = DOMAIN active \cup {rows[i].port}
        /\ \A q \in DOMAIN active : active'[q] = active[q]
        /\ active'[rows[i].port].config = rows[i].config
    BY <2>1 DEF Put
  <2>3. todo \subseteq ListenerRows(rows) /\ Matched
    BY <2>1 DEF SyncInv, RepeatInv, Syncing
  <2>4. ~repeated
    BY <2>1, <2>3 DEF RepeatInv, UpToDate, SameFingerprint
  <2>5. ASSUME NEW k \in ListenerRows(rows) \ (todo \ {i}), Supported(rows, k), rows[k].port \in DOMAIN active'
        PROVE  active'[rows[k].port].config = rows[k].config
    <3>1. CASE rows[k].port = rows[i].port
      <4>1. rows[k].config = rows[i].config
        BY <2>1, <2>3, <2>5, <3>1, RowsAgree
      <4>2. QED
        BY <2>2, <3>1, <4>1
    <3>2. CASE rows[k].port # rows[i].port
      BY <2>2, <2>3, <2>5, <3>2 DEF Matched
    <3>3. QED
      BY <3>1, <3>2
  <2>6. Matched'
    BY <2>1, <2>5 DEF Matched, Supported
  <2>7. QED
    BY <2>1, <2>4, <2>6 DEF RepeatInv, NoNeedlessRestart
<1>9. ASSUME NEW p \in DOMAIN active, StopAll(p) PROVE RepeatInv'
  BY <1>9 DEF StopAll, BeginStop, RepeatInv, Syncing, NoNeedlessRestart
<1>10. QED
  BY <1>2, <1>3, <1>4, <1>6, <1>7, <1>8, <1>9 DEF Next, Sync, Stopping

\* A sync that brings the rows of the one before stops no listener, as long as
\* plain users that share a port agree on its configuration.
THEOREM NoNeedlessRestartHolds ==
  ASSUME PlainPortsAgree
  PROVE  Spec => []NoNeedlessRestart
<1>1. Init => RepeatInv
  BY DEF Init, RepeatInv, Syncing, NoNeedlessRestart
<1>2. SupervisorInv => TypeOK /\ SyncInv
  BY DEF SupervisorInv, ListenInv
<1>3. TypeOK /\ SyncInv /\ RepeatInv /\ [Next]_vars => RepeatInv'
  BY NextRepeat
<1>4. RepeatInv => NoNeedlessRestart
  BY DEF RepeatInv
<1>5. QED
  BY <1>1, <1>2, <1>3, <1>4, SupervisorInvariant, PTL DEF Spec
=============================================================================
