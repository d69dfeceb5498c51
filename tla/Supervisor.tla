----------------------------- MODULE Supervisor -----------------------------
(***************************************************************************)
(* BackendRuntime::run of supervisor.rs: the select loop with its          *)
(* handlers, the life of the listener tasks it spawns and stops (tcp.rs,   *)
(* udp.rs), and shutdown by signal.                                        *)
(*                                                                         *)
(* The loop is one task.  While a handler awaits the panel or a stopping   *)
(* listener, the futures of the other select! branches do not exist; in    *)
(* particular nobody listens for signals.                                  *)
(***************************************************************************)
EXTENDS Naturals, Sequences, FiniteSets, Functions, Maps

CONSTANTS
  Port,        \* ports the panel may list
  Config,      \* the rest of a UserFingerprint: password, profile, mode
  Unsupported, \* configurations Profile::from_user rejects
  Listings,    \* answers of panel.users(): sequences of rows
  Proto,       \* enabled listeners, a subset of {"tcp", "udp"}
  MaxTasks,    \* listener tasks spawned               (bound)
  MaxFaults    \* sockets that fail: bind, accept, recv (bound)

Row == [port : Port, config : Config, carrier : BOOLEAN]

ASSUME SupervisorAssumption ==
  /\ Unsupported \subseteq Config
  /\ Listings \subseteq Seq(Row)
  /\ Proto \subseteq {"tcp", "udp"}
  /\ MaxTasks \in Nat /\ MaxFaults \in Nat

VARIABLES
  \* the run loop
  pc,        \* where run() is
  rows,      \* the rows of the last successful panel.users()
  repeated,  \* were they the rows of the sync before?
  todo,      \* listener rows the sync has not handled yet, as indices
  active,    \* active_users: port -> configuration and listener tasks
  stopping,  \* tasks of the ActiveUser being stopped, the current one first
  after,     \* where pc goes when they are stopped
  \* the listener tasks
  tasks,     \* every task spawned so far, in order
  lingering, \* ended UDP tasks whose aborted pumps still hold the socket
  faults,
  \* shutdown
  watching,  \* the shutdown_signal() future has been polled and waits
  signalled, \* it has a signal to return
  installed, \* tokio has replaced the default action of SIGTERM
  term       \* SIGTERM was sent to the process

loopVars == <<rows, repeated, todo, active, stopping, after>>
taskVars == <<tasks, lingering, faults>>
signalVars == <<watching, signalled, installed, term>>
vars == <<pc, loopVars, taskVars, signalVars>>

----------------------------------------------------------------------------
(* Which rows get a listener. *)

\* Faulty variant: carriers on one port are not merged.
EveryRowOfPort(rs, i) == TRUE

\* merge_carrier_users keeps the first row of each port.
FirstOfPort(rs, i) ==
  \A j \in 1 .. i - 1 : rs[j].carrier => rs[j].port # rs[i].port

\* With a carrier among the rows only carriers listen, else every user does.
ListenerRows(rs) ==
  IF \E i \in DOMAIN rs : rs[i].carrier
  THEN {i \in DOMAIN rs : rs[i].carrier /\ FirstOfPort(rs, i)}
  ELSE DOMAIN rs

Supported(rs, i) == rs[i].config \notin Unsupported

LivePorts == {rows[i].port : i \in {j \in ListenerRows(rows) : Supported(rows, j)}}

Init ==
  /\ pc = "starting"
  /\ rows = << >> /\ repeated = FALSE /\ todo = {}
  /\ active = << >> /\ stopping = << >> /\ after = "sync"
  /\ tasks = << >> /\ lingering = {} /\ faults = 0
  /\ watching = FALSE /\ signalled = FALSE /\ installed = FALSE /\ term = FALSE

----------------------------------------------------------------------------
(* The select loop. *)

\* All branches are polled: shutdown_signal() registers its receivers.
PollSignal ==
  /\ pc = "select" /\ ~watching
  /\ watching' = TRUE /\ installed' = TRUE
  /\ UNCHANGED <<pc, loopVars, taskVars, signalled, term>>

\* Another branch is ready and wins: select! drops the signal future, with
\* whatever it has received.
Branch(to) ==
  /\ pc = "select" /\ pc' = to
  /\ watching' = FALSE /\ signalled' = FALSE
  /\ UNCHANGED <<loopVars, taskVars, installed, term>>

RecordEvent == Branch("select")
PollTick == Branch("polling")
ReportTick == Branch("reporting")      \* traffic or heartbeat interval

\* The report handlers give up on any error, so they come back either way.
ReportDone ==
  /\ pc = "reporting" /\ pc' = "select"
  /\ UNCHANGED <<loopVars, taskVars, signalVars>>

\* The signal branch wins: leave the loop and stop_all.
Shutdown ==
  /\ pc = "select" /\ signalled
  /\ pc' = "stop_all"
  /\ UNCHANGED <<loopVars, taskVars, signalVars>>

----------------------------------------------------------------------------
(* sync_users. *)

\* panel.users() fails or lists too many users: fatal at start-up only.
SyncFail ==
  /\ pc \in {"starting", "polling"}
  /\ pc' = IF pc = "starting" THEN "exited" ELSE "select"
  /\ UNCHANGED <<loopVars, taskVars, signalVars>>

\* Rows that may need new listeners.  The bound on tasks is applied here, where
\* the outside world chooses; a panel that repeats itself never meets it.
Respawns(rs) ==
  {i \in ListenerRows(rs) :
     ~(rs[i].port \in DOMAIN active /\ active[rs[i].port].config = rs[i].config)}

SyncFetched(rs) ==
  /\ pc \in {"starting", "polling"}
  /\ Len(tasks) + Cardinality(Respawns(rs)) * Cardinality(Proto) <= MaxTasks
  /\ pc' = "sync"
  /\ rows' = rs
  /\ repeated' = (pc = "polling" /\ rs = rows)
  /\ todo' = ListenerRows(rs)
  /\ UNCHANGED <<active, stopping, after, taskVars, signalVars>>

\* Carriers come out of a HashMap in any order, plain users in panel order.
NextRow(i) ==
  /\ pc = "sync" /\ i \in todo
  /\ rows[i].carrier \/ \A j \in todo : i <= j

SkipUnsupported(i) ==
  /\ NextRow(i) /\ ~Supported(rows, i)
  /\ todo' = todo \ {i}
  /\ UNCHANGED <<pc, rows, repeated, active, stopping, after, taskVars, signalVars>>

\* Faulty variant: the configuration is not part of the fingerprint.
SamePort(p, c) == p \in DOMAIN active

\* Does the port's entry already have this fingerprint?
SameFingerprint(p, c) == p \in DOMAIN active /\ active[p].config = c

KeepListener(i) ==
  /\ NextRow(i) /\ Supported(rows, i)
  /\ SameFingerprint(rows[i].port, rows[i].config)
  /\ todo' = todo \ {i}
  /\ UNCHANGED <<pc, rows, repeated, active, stopping, after, taskVars, signalVars>>

\* The stop channel of task t fires.
StopSent(ts, t) == [ts EXCEPT ![t].stop = TRUE]

\* Faulty variant: only the first listener of the entry is stopped.
BeginStopFirst(p, then) ==
  /\ active' = Without(active, p)
  /\ stopping' = <<Head(active[p].tasks)>>
  /\ tasks' = StopSent(tasks, Head(active[p].tasks))
  /\ after' = then
  /\ pc' = "stopping"
  /\ UNCHANGED <<rows, repeated, todo, lingering, faults, signalVars>>

\* Take port p out of active_users and start ActiveUser::stop on it: one
\* listener after the other, each told to stop and then awaited.
BeginStop(p, then) ==
  /\ active' = Without(active, p)
  /\ stopping' = active[p].tasks
  /\ tasks' = IF active[p].tasks = << >> THEN tasks
              ELSE StopSent(tasks, Head(active[p].tasks))
  /\ after' = then
  /\ pc' = "stopping"
  /\ UNCHANGED <<rows, repeated, todo, lingering, faults, signalVars>>

RestartListener(i) ==
  /\ NextRow(i) /\ Supported(rows, i)
  /\ rows[i].port \in DOMAIN active
  /\ ~SameFingerprint(rows[i].port, rows[i].config)
  /\ BeginStop(rows[i].port, "sync")

\* Faulty variant: stop() has no time-out.
StopWaitedForEver == tasks[Head(stopping)].state = "ended"

\* The awaited task has ended, or two seconds passed while it was busy; a
\* task given up on is detached, not aborted.
StopWaited == tasks[Head(stopping)].state \in {"ended", "busy"}

StopNext ==
  /\ pc = "stopping" /\ stopping # << >>
  /\ StopWaited
  /\ stopping' = Tail(stopping)
  /\ tasks' = IF Tail(stopping) = << >> THEN tasks
              ELSE StopSent(tasks, Head(Tail(stopping)))
  /\ UNCHANGED <<pc, rows, repeated, todo, active, after, lingering, faults, signalVars>>

StopFinished ==
  /\ pc = "stopping" /\ stopping = << >>
  /\ pc' = after
  /\ UNCHANGED <<loopVars, taskVars, signalVars>>

\* The listeners of one port: TCP first, then UDP, as far as enabled.
Enabled(x) == IF x \in Proto THEN <<x>> ELSE << >>

Protos == Enabled("tcp") \o Enabled("udp")

\* Faulty variant: the entry counts on both listeners, one is spawned.
NewTasksFirst(p, c) ==
  <<[port |-> p, proto |-> Protos[1], config |-> c, state |-> "binding", stop |-> FALSE]>>

NewTasks(p, c) ==
  [k \in 1 .. Len(Protos) |->
     [port |-> p, proto |-> Protos[k], config |-> c, state |-> "binding", stop |-> FALSE]]

SpawnListener(i) ==
  LET p == rows[i].port
      c == rows[i].config IN
  /\ NextRow(i) /\ Supported(rows, i)
  /\ p \notin DOMAIN active
  /\ tasks' = tasks \o NewTasks(p, c)
  /\ active' = Put(active, p, [config |-> c,
                               tasks |-> [k \in 1 .. Len(Protos) |-> Len(tasks) + k]])
  /\ todo' = todo \ {i}
  /\ UNCHANGED <<pc, rows, repeated, stopping, after, lingering, faults, signalVars>>

\* Which entries the end of the sync drops.
StalePorts == DOMAIN active \ LivePorts

RemoveStale(p) ==
  /\ pc = "sync" /\ todo = {}
  /\ p \in StalePorts
  /\ BeginStop(p, "sync")

SyncDone ==
  /\ pc = "sync" /\ todo = {} /\ StalePorts = {}
  /\ pc' = "select"
  /\ UNCHANGED <<loopVars, taskVars, signalVars>>

----------------------------------------------------------------------------
(* stop_all, and the end of the process. *)

StopAll(p) ==
  /\ pc = "stop_all"
  /\ p \in DOMAIN active
  /\ BeginStop(p, "stop_all")

Exit ==
  /\ pc = "stop_all" /\ active = << >>
  /\ pc' = "exited"
  /\ UNCHANGED <<loopVars, taskVars, signalVars>>

\* systemctl stop.  Until tokio has a handler SIGTERM kills the process;
\* from then on it reaches whoever is waiting for it, if anyone is.
Sigterm ==
  /\ pc # "exited" /\ ~term
  /\ term' = TRUE
  /\ IF installed THEN signalled' = watching /\ UNCHANGED pc
                  ELSE pc' = "exited" /\ UNCHANGED signalled
  /\ UNCHANGED <<loopVars, taskVars, watching, installed>>

----------------------------------------------------------------------------
(* Listener tasks. *)

Holding(t) == tasks[t].state \in {"serving", "busy"} \/ t \in lingering

\* Is the socket of task t held by another one?
AddrInUse(t) ==
  \E v \in DOMAIN tasks : v # t /\ Holding(v)
                          /\ tasks[v].port = tasks[t].port /\ tasks[v].proto = tasks[t].proto

Alive(t) == pc # "exited" /\ t \in DOMAIN tasks

SetState(t, st) == tasks' = [tasks EXCEPT ![t].state = st]

Bind(t) ==
  /\ Alive(t) /\ tasks[t].state = "binding" /\ ~AddrInUse(t)
  /\ SetState(t, "serving")
  /\ UNCHANGED <<pc, loopVars, lingering, faults, signalVars>>

\* The error is logged by the spawned task and the task ends.
BindFails(t) ==
  /\ Alive(t) /\ tasks[t].state = "binding"
  /\ \/ AddrInUse(t) /\ UNCHANGED faults
     \/ faults < MaxFaults /\ faults' = faults + 1
  /\ SetState(t, "ended")
  /\ UNCHANGED <<pc, loopVars, lingering, signalVars>>

\* A datagram is handled in the UDP listener's own task: resolving its target
\* keeps the task from its stop channel.
Receive(t) ==
  /\ Alive(t) /\ tasks[t].proto = "udp" /\ tasks[t].state = "serving" /\ ~tasks[t].stop
  /\ SetState(t, "busy")
  /\ UNCHANGED <<pc, loopVars, lingering, faults, signalVars>>

Resume(t) ==
  /\ Alive(t) /\ tasks[t].state = "busy"
  /\ SetState(t, "serving")
  /\ UNCHANGED <<pc, loopVars, lingering, faults, signalVars>>

\* A UDP task that ends aborts the response pumps of its associations, if it
\* has any, which let go of the socket when the runtime drops them.
TaskEnds(t) ==
  /\ SetState(t, "ended")
  /\ \/ UNCHANGED lingering
     \/ tasks[t].proto = "udp" /\ lingering' = lingering \cup {t}

SeeStop(t) ==
  /\ Alive(t) /\ tasks[t].state = "serving" /\ tasks[t].stop
  /\ TaskEnds(t)
  /\ UNCHANGED <<pc, loopVars, faults, signalVars>>

\* accept() or recv_from() returns an error.
ListenFails(t) ==
  /\ Alive(t) /\ tasks[t].state = "serving" /\ faults < MaxFaults
  /\ faults' = faults + 1
  /\ TaskEnds(t)
  /\ UNCHANGED <<pc, loopVars, signalVars>>

PumpsDropped(t) ==
  /\ Alive(t) /\ t \in lingering
  /\ lingering' = lingering \ {t}
  /\ UNCHANGED <<pc, loopVars, tasks, faults, signalVars>>

----------------------------------------------------------------------------
Sync ==
  \/ SyncFail
  \/ \E rs \in Listings : SyncFetched(rs)
  \/ \E i \in todo : SkipUnsupported(i) \/ KeepListener(i) \/ RestartListener(i)
                     \/ SpawnListener(i)
  \/ \E p \in DOMAIN active : RemoveStale(p)
  \/ SyncDone

Stopping == StopNext \/ StopFinished \/ (\E p \in DOMAIN active : StopAll(p)) \/ Exit

Loop == RecordEvent \/ PollTick \/ ReportTick \/ ReportDone \/ PollSignal \/ Shutdown

Task(t) ==
  \/ Bind(t) \/ BindFails(t) \/ SeeStop(t) \/ ListenFails(t)
  \/ Receive(t) \/ Resume(t) \/ PumpsDropped(t)

Next == Loop \/ Sync \/ Stopping \/ Sigterm \/ \E t \in DOMAIN tasks : Task(t)

Spec == Init /\ [][Next]_vars

(***************************************************************************)
(* Every handler returns in the end: requests to the panel time out and    *)
(* every await on a listener is bounded, so the loop task keeps running.   *)
(* A task that can run does.  FairSpec assumes nothing of the panel and of *)
(* name lookups; CooperativeSpec adds that lookups finish and that the     *)
(* panel answers again and again.                                          *)
(***************************************************************************)
Fairness ==
  /\ WF_vars(Sync) /\ WF_vars(Stopping) /\ WF_vars(ReportDone)
  /\ WF_vars(PollSignal) /\ WF_vars(Shutdown) /\ SF_vars(PollTick)
  /\ \A t \in 1 .. MaxTasks :
       /\ WF_vars(Bind(t) \/ BindFails(t))
       /\ WF_vars(SeeStop(t))
       /\ WF_vars(PumpsDropped(t))

FairSpec == Spec /\ Fairness
CooperativeSpec ==
  /\ FairSpec
  /\ \A t \in 1 .. MaxTasks : WF_vars(Resume(t))
  /\ SF_vars(\E rs \in Listings : SyncFetched(rs))

----------------------------------------------------------------------------
\* Types: entries and pending stops name tasks that were spawned
\* (ActiveUser, active_users).
TypeOK ==
  /\ pc \in {"starting", "select", "polling", "reporting", "sync", "stopping",
             "stop_all", "exited"}
  /\ rows \in Listings \cup {<< >>} /\ repeated \in BOOLEAN
  /\ todo \subseteq DOMAIN rows
  /\ IsMap(active, Port, [config : Config, tasks : Seq(DOMAIN tasks)])
  /\ stopping \in Seq(DOMAIN tasks) /\ after \in {"sync", "stop_all"}
  /\ tasks \in Seq([port : Port, proto : Proto, config : Config,
                    state : {"binding", "serving", "busy", "ended"}, stop : BOOLEAN])
  /\ lingering \subseteq DOMAIN tasks /\ faults \in 0 .. MaxFaults
  /\ watching \in BOOLEAN /\ signalled \in BOOLEAN
  /\ installed \in BOOLEAN /\ term \in BOOLEAN

\* No listener is forgotten: a task that was not told to stop, and has not
\* ended by itself, belongs to the entry of its port and serves its current
\* configuration, or is about to be told (ActiveUser::stop is called for every
\* entry that leaves active_users, for both listeners, whatever happened to
\* the first).
NoForgottenListener ==
  \A t \in DOMAIN tasks : tasks[t].state # "ended" /\ ~tasks[t].stop =>
    \/ \E k \in DOMAIN stopping : stopping[k] = t
    \/ /\ tasks[t].port \in DOMAIN active
       /\ active[tasks[t].port].config = tasks[t].config
       /\ \E k \in DOMAIN active[tasks[t].port].tasks : active[tasks[t].port].tasks[k] = t

\* Back in the select loop the entries are those the last rows call for: one
\* per port, with the configuration of the row that decides, although a sync
\* restarts, spawns and removes listeners one await at a time and a later
\* fetch may fail.
DecidingRow(i) ==
  /\ i \in ListenerRows(rows) /\ Supported(rows, i)
  /\ \A j \in ListenerRows(rows) :
       Supported(rows, j) /\ rows[j].port = rows[i].port => j <= i

SyncConverges ==
  pc = "select" =>
    /\ DOMAIN active = LivePorts
    /\ \A i \in DOMAIN rows : DecidingRow(i) => active[rows[i].port].config = rows[i].config

\* "Identical carrier config on two different polls -> equal -> no restart":
\* a sync that brings the same rows as the one before stops no listener.
NoNeedlessRestart == repeated /\ pc = "stopping" => after = "stop_all"

\* The loop always comes back to its select, or the process ends: no handler
\* waits for ever, not even for a UDP listener stuck in a lookup (the two
\* seconds of stop()).
HandlersReturn == (pc # "select") ~> (pc \in {"select", "exited"})

\* "we must listen for both on Unix or the process would never run its graceful
\* stop_all() and would instead be SIGKILLed": a SIGTERM ends the process.
SigtermStops == term ~> (pc = "exited")

\* "A genuine socket-level change ... must still flip the fingerprint and
\* trigger a rebind": a configuration that gets an entry gets served, unless
\* the entry goes away first.
Served(p, c, x) ==
  \E t \in DOMAIN tasks : /\ tasks[t].port = p /\ tasks[t].config = c /\ tasks[t].proto = x
                          /\ tasks[t].state \in {"serving", "busy"}

RebindSucceeds ==
  \A p \in Port, c \in Config, x \in Proto :
    SameFingerprint(p, c) ~> (Served(p, c, x) \/ ~SameFingerprint(p, c) \/ pc = "exited")
=============================================================================
