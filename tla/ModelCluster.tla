---------------------------- MODULE ModelCluster ----------------------------
(***************************************************************************)
(* The registry of models of a coordinator: ModelCluster of                *)
(* model_runner_client/model_cluster.py, with the part of ModelRunner      *)
(* (init, close, _connect_*_channels) it drives and the tasks the          *)
(* ModelConcurrentRunner starts on it.                                     *)
(*                                                                         *)
(* The program is one asyncio loop: a coroutine runs undisturbed from one  *)
(* suspending await to the next, so one action is one such segment, taken  *)
(* whole.  Every call of a coroutine that gather() or create_task() runs   *)
(* is a TASK with a program counter; a task that creates a ModelRunner     *)
(* lends it its name, so that the runner of task t is t itself.            *)
(***************************************************************************)
EXTENDS Integers, Sequences

CONSTANTS Models,        \* the model ids
          Updates,       \* the entries the orchestrator may send
          Payloads,      \* the lists of entries an event may carry
          None,          \* Python's None
          Secure,        \* runners have secure_credentials: TLS probe first
          ReportFailure, \* the report_failure argument of the constructor
          UsageErrors,   \* init() may raise InvalidCoordinatorUsageError
          MaxEvents,     \* bound: events received
          MaxData,       \* bound: entries in an event
          MaxBackground  \* bound: tasks started by ModelConcurrentRunner

(***************************************************************************)
(* The names of tasks: one for each entry of each event, one for each      *)
(* model an `init' event may prune, and the background ones.               *)
(***************************************************************************)
EntryTask == (1 .. MaxEvents) \X (1 .. MaxData)
PruneTask == (1 .. MaxEvents) \X Models
Background == {0} \X (1 .. MaxBackground)
TaskId == EntryTask \cup PruneTask \cup Background
Runners == EntryTask \cup Background

States == {"RUNNING", "STOPPED", "RECOVERING"}

ASSUME ClusterAssumption ==
  /\ MaxEvents \in Nat /\ MaxData \in Nat /\ MaxBackground \in Nat
  /\ Secure \in BOOLEAN /\ ReportFailure \in BOOLEAN /\ UsageErrors \in BOOLEAN
  /\ Models \cap Nat = {}
  /\ None \notin TaskId /\ None \notin Updates
  /\ \A u \in Updates : u.model \in Models /\ u.state \in States
  /\ \A d \in Payloads : /\ Len(d) \in 0 .. MaxData
                         /\ \A i \in 1 .. Len(d) : d[i] \in Updates

VARIABLES
  models_run,   \* ModelCluster.models_run: model -> runner
  pending,      \* ModelCluster.pending_model_runs: model -> runner
  config,       \* what a runner was built from: ids, ip/port and infos
  closed,       \* runners whose flag `closed' is set
  channel,      \* the state of a runner's gRPC channels
  initialized,  \* runners whose init() has returned success
  reported,     \* runners named in a report_failure message
  pc,           \* the await (or the start) at which a task stands
  target,       \* the runner a task is closing, failing or reconnecting
  eventNum, eventType, eventData,  \* the event received last
  phase         \* where handle_event stands for it

registry == <<models_run, pending>>
event == <<eventNum, eventType, eventData>>
vars == <<models_run, pending, config, closed, channel, initialized, reported,
          pc, target, eventNum, eventType, eventData, phase>>

Scheduled == {"add", "remove", "fail", "reconnect"}
Starting == {"probe", "init"}
Closing == {"closing", "replacing", "reconnecting"}
Ended == {"done", "raised", "cancelled"}
PCs == {"idle", "sending"} \cup Scheduled \cup Starting \cup Closing \cup Ended

TypeOK ==
  /\ models_run \in [Models -> Runners \cup {None}]
  /\ pending \in [Models -> Runners \cup {None}]
  /\ config \in [Runners -> Updates \cup {None}]
  /\ closed \subseteq Runners
  /\ channel \in [Runners -> {"none", "open", "closing", "shut"}]
  /\ initialized \subseteq Runners
  /\ reported \subseteq Runners
  /\ pc \in [TaskId -> PCs]
  /\ target \in [TaskId -> Runners \cup {None}]
  /\ eventNum \in 0 .. MaxEvents
  /\ eventType \in {"init", "update"}
  /\ eventData \in Payloads \cup {<<>>}
  /\ phase \in {"idle", "updating", "pruning", "stopped"}

Init ==
  /\ models_run = [m \in Models |-> None]
  /\ pending = [m \in Models |-> None]
  /\ config = [r \in Runners |-> None]
  /\ closed = {}
  /\ channel = [r \in Runners |-> "none"]
  /\ initialized = {}
  /\ reported = {}
  /\ pc = [t \in TaskId |-> "idle"]
  /\ target = [t \in TaskId |-> None]
  /\ eventNum = 0
  /\ eventType = "init"
  /\ eventData = <<>>
  /\ phase = "idle"

-----------------------------------------------------------------------------
(***************************************************************************)
(* Registry and channel operators.  They take the registry maps as         *)
(* arguments: one segment may change them more than once.                  *)
(***************************************************************************)

\* (Definitions named Faulty... are no part of the model: each is a plausible
\* defect of the definition after it, and breaks a property when put in its place.)

\* Defect: add_model_runner looks at the pending entries only.
FaultyCurrent(run, pend, m) == pend[m]

\* models_run.get(m) or pending_model_runs.get(m)
Current(run, pend, m) == IF run[m] # None THEN run[m] ELSE pend[m]

\* Defect: the entry of r's model is deleted, whoever holds it.
FaultyForget(map, r) ==
  [m \in Models |-> IF r # None /\ config[r].model = m THEN None ELSE map[m]]

\* The deletions that end remove_model_runner: only if the entry is r itself.
Forget(map, r) == [m \in Models |-> IF map[m] = r THEN None ELSE map[m]]

\* ModelRunner.close() reaches its await: the channels start shutting down.
ShutBegin(ch, r) == [ch EXCEPT ![r] = IF @ = "open" THEN "closing" ELSE @]
ShutEnd(ch, r) == [ch EXCEPT ![r] = IF @ = "closing" THEN "shut" ELSE @]

\* add_model_runner from the pending entry on: init() runs to its first await,
\* the TLS probe of a secure runner or the readiness of an open channel.
BeginInit(t, m, pend, ch) ==
  /\ pending' = [pend EXCEPT ![m] = t]
  /\ channel' = IF Secure THEN ch ELSE [ch EXCEPT ![t] = "open"]
  /\ pc' = [pc EXCEPT ![t] = IF Secure THEN "probe" ELSE "init"]
  /\ target' = [target EXCEPT ![t] = None]

\* add_model_runner of runner t.  A runner with no channel yet (its TLS probe is
\* out) is closed without suspending, and is forgotten in the same segment.
Add(t, m, run, pend, ch) ==
  LET current == Current(run, pend, m) IN
  \/ /\ current = None
     /\ BeginInit(t, m, pend, ch)
     /\ models_run' = run
     /\ UNCHANGED closed
  \/ /\ current # None /\ ch[current] = "none"
     /\ closed' = closed \cup {current}
     /\ models_run' = Forget(run, current)
     /\ BeginInit(t, m, Forget(pend, current), ch)
  \/ /\ current # None /\ ch[current] # "none"
     /\ closed' = closed \cup {current}
     /\ models_run' = run
     /\ pending' = pend
     /\ channel' = ShutBegin(ch, current)
     /\ pc' = [pc EXCEPT ![t] = "replacing"]
     /\ target' = [target EXCEPT ![t] = current]

\* remove_model_runner of runner r by task t, which waits at `at' for close().
Remove(t, r, at) ==
  /\ closed' = closed \cup {r}
  /\ \/ /\ channel[r] = "none"
        /\ at = "closing"
        /\ models_run' = Forget(models_run, r)
        /\ pending' = Forget(pending, r)
        /\ pc' = [pc EXCEPT ![t] = "done"]
        /\ target' = [target EXCEPT ![t] = None]
        /\ UNCHANGED channel
     \/ /\ channel[r] # "none"
        /\ channel' = ShutBegin(channel, r)
        /\ pc' = [pc EXCEPT ![t] = at]
        /\ target' = [target EXCEPT ![t] = r]
        /\ UNCHANGED registry

-----------------------------------------------------------------------------
(***************************************************************************)
(* handle_event: handle_init_event, handle_update_event and the loop of    *)
(* update_model_runs, which runs with no await on one registry.            *)
(***************************************************************************)

\* Defect: the deployment of an entry is not compared with the runner's.
FaultyFound(u) == Current(models_run, pending, u.model)

\* The registered runner of the entry's model if it has the entry's deployment.
Found(u) ==
  LET r == Current(models_run, pending, u.model) IN
  IF r # None /\ config[r].deployment = u.deployment THEN r ELSE None

SameAddress(u) == Found(u) # None /\ config[Found(u)].endpoint = u.endpoint

Adds(u) == u.state = "RUNNING" /\ ~SameAddress(u)
Removes(u) == u.state \in {"STOPPED", "RECOVERING"} /\ Found(u) # None
Refreshes(u, r) == /\ u.state = "RUNNING"
                   /\ SameAddress(u)
                   /\ models_run[u.model] = r

ReceiveEvent(type, data) ==
  /\ phase = "idle"
  /\ eventNum < MaxEvents
  /\ eventNum' = eventNum + 1
  /\ eventType' = type
  /\ eventData' = data
  /\ phase' = "updating"
  /\ LET task(i) == <<eventNum + 1, i>>
         adding == {task(i) : i \in {j \in 1 .. Len(data) : Adds(data[j])}}
         removing == {task(i) : i \in {j \in 1 .. Len(data) : Removes(data[j])}}
         latest(r) == {i \in 1 .. Len(data) : Refreshes(data[i], r)
                         /\ \A j \in 1 .. Len(data) : Refreshes(data[j], r) => j <= i}
     IN /\ pc' = [t \in TaskId |-> IF t \in adding THEN "add"
                                   ELSE IF t \in removing THEN "remove"
                                   ELSE pc[t]]
        /\ target' = [t \in TaskId |-> IF t \in removing THEN Found(data[t[2]])
                                       ELSE target[t]]
        /\ config' = [r \in Runners |->
                        IF r \in adding THEN data[r[2]]
                        ELSE IF latest(r) = {} THEN config[r]
                        ELSE data[CHOOSE i \in latest(r) : TRUE]]
  /\ UNCHANGED <<registry, closed, channel, initialized, reported>>

ThisEvent(tasks) == {t \in tasks : t[1] = eventNum}

\* gather() of update_model_runs returns: an `init' event goes on to remove the
\* running models it does not name.
UpdatesDone ==
  /\ phase = "updating"
  /\ \A t \in ThisEvent(EntryTask) : pc[t] \in {"idle", "done"}
  /\ \/ /\ eventType = "update"
        /\ phase' = "idle"
        /\ UNCHANGED <<pc, target>>
     \/ /\ eventType = "init"
        /\ phase' = "pruning"
        /\ LET absent == {m \in Models : /\ models_run[m] # None
                                         /\ \A i \in 1 .. Len(eventData) :
                                              eventData[i].model # m}
               prune == {t \in ThisEvent(PruneTask) : t[2] \in absent}
           IN /\ pc' = [t \in TaskId |-> IF t \in prune THEN "remove" ELSE pc[t]]
              /\ target' = [t \in TaskId |-> IF t \in prune THEN models_run[t[2]]
                                             ELSE target[t]]
  /\ UNCHANGED <<registry, config, closed, channel, initialized, reported, event>>

PruneDone ==
  /\ phase = "pruning"
  /\ \A t \in ThisEvent(PruneTask) : pc[t] \in {"idle", "done"}
  /\ phase' = "idle"
  /\ UNCHANGED <<registry, config, closed, channel, initialized, reported, pc,
                 target, event>>

\* gather() re-raises: the handler is left, its other children run on.  The
\* listener takes the next message after an Exception; a CancelledError is not
\* one, and ends listen().
HandlerLeft ==
  /\ phase = "updating"
  /\ \E t \in ThisEvent(EntryTask) :
       \/ pc[t] = "raised" /\ phase' = "idle"
       \/ pc[t] = "cancelled" /\ phase' = "stopped"
  /\ UNCHANGED <<registry, config, closed, channel, initialized, reported, pc,
                 target, event>>

-----------------------------------------------------------------------------
(***************************************************************************)
(* The tasks.                                                              *)
(***************************************************************************)

AddStart(t) ==
  /\ pc[t] = "add"
  /\ Add(t, config[t].model, models_run, pending, channel)
  /\ UNCHANGED <<config, initialized, reported, event, phase>>

\* Defect: the model's runner is looked up when the task starts.
FaultyRemoveStart(t) ==
  /\ pc[t] = "remove"
  /\ LET r == Current(models_run, pending, config[target[t]].model) IN
       Remove(t, IF r = None THEN target[t] ELSE r, "closing")
  /\ UNCHANGED <<config, initialized, reported, event, phase>>

RemoveStart(t) ==
  /\ pc[t] = "remove"
  /\ Remove(t, target[t], "closing")
  /\ UNCHANGED <<config, initialized, reported, event, phase>>

\* process_failure up to the send of the report.
Fail(t, r) ==
  \/ /\ ReportFailure
     /\ reported' = reported \cup {r}
     /\ pc' = [pc EXCEPT ![t] = "sending"]
     /\ target' = [target EXCEPT ![t] = r]
  \/ /\ ~ReportFailure
     /\ pc' = [pc EXCEPT ![t] = "done"]
     /\ target' = [target EXCEPT ![t] = None]
     /\ UNCHANGED reported

FailStart(t) ==
  /\ pc[t] = "fail"
  /\ Fail(t, target[t])
  /\ UNCHANGED <<registry, config, closed, channel, initialized, event, phase>>

\* Defect: a failed model is reported and then left alone.
FaultySendDone(t) ==
  /\ pc[t] = "sending"
  /\ pc' = [pc EXCEPT ![t] = "done"]
  /\ target' = [target EXCEPT ![t] = None]
  /\ UNCHANGED <<registry, config, closed, channel, initialized, reported, event,
                 phase>>

\* send_message returns (it queues what it cannot send), then the removal.
SendDone(t) ==
  /\ pc[t] = "sending"
  /\ Remove(t, target[t], "closing")
  /\ UNCHANGED <<config, initialized, reported, event, phase>>

ReconnectStart(t) ==
  /\ pc[t] = "reconnect"
  /\ Remove(t, target[t], "reconnecting")
  /\ UNCHANGED <<config, initialized, reported, event, phase>>

\* Defect: only the pending entry is deleted once the runner is closed.
FaultyRemoveEnd(t) ==
  /\ pc[t] = "closing"
  /\ pending' = Forget(pending, target[t])
  /\ channel' = ShutEnd(channel, target[t])
  /\ pc' = [pc EXCEPT ![t] = "done"]
  /\ target' = [target EXCEPT ![t] = None]
  /\ UNCHANGED <<models_run, config, closed, initialized, reported, event, phase>>

\* Defect: a close() that finds the channels shut by another one waits for ever.
DeafRemoveEnd(t) ==
  /\ pc[t] = "closing"
  /\ channel[target[t]] = "closing"
  /\ models_run' = Forget(models_run, target[t])
  /\ pending' = Forget(pending, target[t])
  /\ channel' = ShutEnd(channel, target[t])
  /\ pc' = [pc EXCEPT ![t] = "done"]
  /\ target' = [target EXCEPT ![t] = None]
  /\ UNCHANGED <<config, closed, initialized, reported, event, phase>>

\* close() returns in remove_model_runner: the end of a removal,
RemoveEnd(t) ==
  /\ pc[t] = "closing"
  /\ models_run' = Forget(models_run, target[t])
  /\ pending' = Forget(pending, target[t])
  /\ channel' = ShutEnd(channel, target[t])
  /\ pc' = [pc EXCEPT ![t] = "done"]
  /\ target' = [target EXCEPT ![t] = None]
  /\ UNCHANGED <<config, closed, initialized, reported, event, phase>>

\* or of the one in add_model_runner, which goes on without a second look at
\* the registry,
ReplaceEnd(t) ==
  /\ pc[t] = "replacing"
  /\ models_run' = Forget(models_run, target[t])
  /\ BeginInit(t, config[t].model, Forget(pending, target[t]),
               ShutEnd(channel, target[t]))
  /\ UNCHANGED <<config, closed, initialized, reported, event, phase>>

\* Defect: the old runner itself is put back, its channels opened again.
FaultyReconnectOldClosed(t) ==
  /\ pc[t] = "reconnecting"
  /\ models_run' = [models_run EXCEPT ![config[target[t]].model] = target[t]]
  /\ channel' = [channel EXCEPT ![target[t]] = "open"]
  /\ pc' = [pc EXCEPT ![t] = "done"]
  /\ UNCHANGED <<pending, config, closed, initialized, reported, target, event, phase>>

\* or of the one in reconnect_model_runner, which builds a runner from the old
\* one's settings and adds it.
ReconnectOldClosed(t) ==
  /\ pc[t] = "reconnecting"
  /\ LET old == target[t] IN
       /\ config' = [config EXCEPT ![t] = config[old]]
       /\ Add(t, config[old].model, Forget(models_run, old),
              Forget(pending, old), ShutEnd(channel, old))
  /\ UNCHANGED <<initialized, reported, event, phase>>

\* _connect_secure_channels: the probe has answered and channels are made,
\* whatever close() did meanwhile.
Dial(t) ==
  /\ pc[t] = "probe"
  /\ channel' = [channel EXCEPT ![t] = "open"]
  /\ pc' = [pc EXCEPT ![t] = "init"]
  /\ UNCHANGED <<registry, config, closed, initialized, reported, target, event,
                 phase>>

\* Defect: `closed' is not read before a new attempt.
FaultyRetry(t) ==
  /\ Secure
  /\ pc[t] = "init"
  /\ pc' = [pc EXCEPT ![t] = "probe"]
  /\ UNCHANGED <<registry, config, closed, channel, initialized, reported, target,
                 event, phase>>

\* An attempt failed and the backoff is over: `closed' is read, and a secure
\* runner probes again.  (An insecure one replaces its open channels by open
\* ones at once: no step of this model.)
Retry(t) ==
  /\ Secure
  /\ pc[t] = "init"
  /\ t \notin closed
  /\ pc' = [pc EXCEPT ![t] = "probe"]
  /\ UNCHANGED <<registry, config, closed, channel, initialized, reported, target,
                 event, phase>>

\* Defect: the pending entry is deleted only by remove_model_runner.
FaultyInitLeft(t) == UNCHANGED pending

\* The `finally' of add_model_runner.
InitLeft(t) == pending' = Forget(pending, t)

\* init() returned True.
InitOk(t) ==
  /\ pc[t] = "init"
  /\ channel[t] \in {"open", "closing"}
  /\ InitLeft(t)
  /\ initialized' = initialized \cup {t}
  /\ models_run' = [models_run EXCEPT ![config[t].model] = t]
  /\ pc' = [pc EXCEPT ![t] = "done"]
  /\ UNCHANGED <<config, closed, channel, reported, target, event, phase>>

\* init() returned False: ABORTED ends the task, any other error is a failure
\* of the model (the branches that return it do not read `closed').
InitAborted(t) ==
  /\ pc[t] \in Starting
  /\ t \in closed
  /\ InitLeft(t)
  /\ pc' = [pc EXCEPT ![t] = "done"]
  /\ UNCHANGED <<models_run, config, closed, channel, initialized, reported,
                 target, event, phase>>

\* Defect: a failed init() is charged to the runner it was to replace.
FaultyInitFailed(t) ==
  /\ pc[t] \in Starting
  /\ InitLeft(t)
  /\ Fail(t, target[t])
  /\ UNCHANGED <<models_run, config, closed, channel, initialized, event, phase>>

InitFailed(t) ==
  /\ pc[t] \in Starting
  /\ InitLeft(t)
  /\ Fail(t, t)
  /\ UNCHANGED <<models_run, config, closed, channel, initialized, event, phase>>

\* init() raised InvalidCoordinatorUsageError, or the Setup call was cancelled
\* by the close of its channel.  reconnect_model_runner logs the former.
InitRaised(t) ==
  /\ pc[t] = "init"
  /\ InitLeft(t)
  /\ \/ /\ UsageErrors /\ (Secure => channel[t] # "shut")
        /\ pc' = [pc EXCEPT ![t] = IF t \in Background THEN "done" ELSE "raised"]
     \/ /\ t \in closed
        /\ channel[t] \in {"closing", "shut"}
        /\ pc' = [pc EXCEPT ![t] = "cancelled"]
  /\ UNCHANGED <<models_run, config, closed, channel, initialized, reported,
                 target, event, phase>>

InitReturns(t) == InitOk(t) \/ InitAborted(t) \/ InitFailed(t) \/ InitRaised(t)

\* create_task in ModelConcurrentRunner, for a runner a call was made on: the
\* caller may hold it long after it left the registry.
Spawn(r) ==
  /\ r \in initialized
  /\ \E t \in Background :
       /\ pc[t] = "idle"
       /\ \A b \in Background : b[2] < t[2] => pc[b] # "idle"
       /\ \E call \in {"fail", "reconnect"} : pc' = [pc EXCEPT ![t] = call]
       /\ target' = [target EXCEPT ![t] = r]
  /\ UNCHANGED <<registry, config, closed, channel, initialized, reported, event,
                 phase>>

Work(t) ==
  \/ AddStart(t) \/ RemoveStart(t) \/ FailStart(t) \/ SendDone(t)
  \/ ReconnectStart(t) \/ RemoveEnd(t) \/ ReplaceEnd(t)
  \/ ReconnectOldClosed(t) \/ Dial(t)

Handler == UpdatesDone \/ PruneDone \/ HandlerLeft

Next ==
  \/ \E type \in {"init", "update"}, data \in Payloads : ReceiveEvent(type, data)
  \/ Handler
  \/ \E t \in TaskId : Work(t)
  \/ \E t \in Runners : Retry(t) \/ InitReturns(t)
  \/ \E r \in Runners : Spawn(r)

Spec == Init /\ [][Next]_vars

\* The loop runs every ready task (weak fairness).  Nothing says that an init() ends:
\* the Setup call has no timeout.
FairSpec ==
  /\ Spec
  /\ WF_vars(Handler)
  /\ \A t \in TaskId : WF_vars(Work(t))

-----------------------------------------------------------------------------
(***************************************************************************)
(* Properties.                                                             *)
(***************************************************************************)

Registered(r) == \E m \in Models : r \in {models_run[m], pending[m]}

\* A pending entry is the runner of its model whose init() is under way: the
\* `finally' of add_model_runner and remove_model_runner never leave a stale one,
\* nor take away the entry of another runner's init.
PendingOwned ==
  \A m \in Models : pending[m] # None =>
    /\ pc[pending[m]] \in Starting
    /\ config[pending[m]].model = m

\* Some task waits at the close() of runner r.
Tended(r) == \E t \in TaskId : pc[t] \in Closing /\ target[t] = r

\* A runner that is closed and still registered is about to leave the registry:
\* some task waits at its close() and will run the deletions of
\* remove_model_runner, even if its init() succeeds meanwhile.
ClosedRunnerBeingRemoved ==
  \A r \in closed : Registered(r) => Tended(r)

\* No model is left without a runner by mistake: a running entry disappears only
\* if the runner it holds has been closed, whichever task removes it.
EvictedOnlyWhenClosed ==
  [][\A m \in Models : models_run[m] # None /\ models_run'[m] = None =>
       models_run[m] \in closed']_vars

\* A runner that was reported as failed is never registered again, whichever tasks,
\* calls and events have its model in hand: the next runner of the model is a new one.
ReportedStaysOut ==
  [][\A m \in Models :
       /\ models_run'[m] \in reported => models_run'[m] = models_run[m]
       /\ pending'[m] \in reported => pending'[m] = pending[m]]_vars

\* What init() of runner r looks like from outside: a runner is built (it has a
\* config) before its task adds it.
Phase(r) == IF config[r] = None \/ pc[r] \in {"add", "replacing"} THEN "new"
            ELSE IF pc[r] \in Starting THEN pc[r]
            ELSE "left"

Contract(r) == INSTANCE RunnerContract WITH
  probes <- Secure, phase <- Phase(r), channel <- channel[r],
  closed <- r \in closed, initialized <- r \in initialized

\* However events and calls race for it, no runner is asked for more than
\* ModelRunner does: none is closed before its init() has begun, begins init()
\* twice, dials again once closed, or succeeds on a channel that is shut.
RunnersKeepContract ==
  /\ \A r \in Runners : Contract(r)!Init
  /\ [][\A r \in Runners : [Contract(r)!Next]_(Contract(r)!vars)]_vars

\* The tasks of all events and calls have ended and no event is being handled.
Quiet == phase = "idle" /\ \A t \in TaskId : pc[t] \in {"idle"} \cup Ended

Serves(u, r) == /\ config[r].model = u.model
                /\ config[r].deployment = u.deployment
                /\ config[r].endpoint = u.endpoint

\* What the docstring of update_model_runs promises for one entry.
Applied(u) ==
  IF u.state = "RUNNING"
  THEN \/ models_run[u.model] # None /\ config[models_run[u.model]] = u
       \/ models_run[u.model] = None /\ \E r \in reported :
             r[1] = eventNum /\ Serves(u, r)
  ELSE models_run[u.model] # None =>
         config[models_run[u.model]].deployment # u.deployment

\* Once the coordinator is quiet, the registry is what the last event asked for:
\* each RUNNING entry is served as it says, or its runner was reported as failed,
\* no entry that is STOPPED or RECOVERING runs, and after an `init' event no
\* other model does.
LastEventApplied ==
  Quiet /\ eventNum > 0 =>
    /\ \A i \in 1 .. Len(eventData) : Applied(eventData[i])
    /\ eventType = "init" => \A m \in Models : models_run[m] # None =>
         \E i \in 1 .. Len(eventData) : eventData[i].model = m

\* "STOPPED/RECOVERING: remove model (running or pending)": once the coordinator
\* is quiet, no deployment runs that the last event said is stopped.
StoppedRemoved ==
  Quiet => \A i \in 1 .. Len(eventData) : LET u == eventData[i] IN
    u.state # "RUNNING" /\ models_run[u.model] # None =>
      config[models_run[u.model]].deployment # u.deployment

\* "Remove any existing model (running or pending) with the same model_id": once
\* quiet, every runner whose init() succeeded is registered or was closed, so
\* that no connection to a model node is left that nothing will ever close.
NoOrphan ==
  Quiet => \A r \in initialized : Registered(r) \/ r \in closed

\* Once quiet, no closed runner is registered: a call is never made on one.
NoZombie == Quiet => \A r \in closed : ~Registered(r)

\* An event is handled to its end, by a return or an exception that the listener
\* survives, however many tasks close one runner at once.  Two things prevent it: an
\* init() of the event that never returns, and the close of one of its own starting
\* runners, whose CancelledError ends the listener.
EventHandled == phase # "idle" ~>
  \/ phase = "idle"
  \/ phase = "stopped" /\ \E t \in ThisEvent(EntryTask) : t \in closed
  \/ [](\E t \in ThisEvent(EntryTask) : pc[t] \in Starting)

\* The tasks of events do not end the listener: by the time an entry's task closes a
\* runner, its init() is over, though the runner may have been found before the
\* tasks before it ran.
ListenerSurvives == phase # "stopped"

\* A runner reported as failed is closed, with its channels, and leaves the registry
\* for good, even if other tasks close it, reconnect it or replace it meanwhile.
\* (Its model may be back, by a new runner: see FaultyStopped of ConcurrentRunner.)
ReportedLeaves ==
  \A r \in Runners : r \in reported ~>
    [](r \in closed /\ ~Registered(r) /\ channel[r] \notin {"open", "closing"})
=============================================================================
