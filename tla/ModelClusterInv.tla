--------------------------- MODULE ModelClusterInv ---------------------------
(***************************************************************************)
(* The inductive invariant behind TypeOK, PendingOwned,                    *)
(* EvictedOnlyWhenClosed and ClosedRunnerBeingRemoved, and the one behind  *)
(* LastEventApplied, NoOrphan and NoZombie for events alone.  TaskInv says *)
(* which tasks and runners a task can meet, and rests on one observation:  *)
(* a runner enters the registry, and can be a target, only after the task  *)
(* that made it has begun its init().                                      *)
(***************************************************************************)
EXTENDS ModelCluster

\* Runner r is built, and its task is past the removal that precedes init().
Begun(r) == /\ config[r] \in Updates
            /\ pc[r] \notin {"idle", "add", "replacing", "reconnect", "reconnecting"}

\* A task that adds its runner has built it.
AddsBuilt == \A t \in TaskId :
  pc[t] \in {"add", "replacing"} \cup Starting => config[t] \in Updates

\* Tasks of events to come are idle, and so are the ones that will prune.
FreshIdle ==
  \A t \in TaskId :
    /\ t[1] > eventNum => pc[t] = "idle"
    /\ t \in PruneTask /\ t[1] = eventNum /\ phase = "updating" => pc[t] = "idle"

\* Pruning only ever removes; what a task holds is a runner that has begun.
PruneRemoves == \A t \in PruneTask : pc[t] \in {"idle", "remove", "closing", "done"}

Holding == {"remove", "fail", "reconnect", "sending"} \cup Closing

TargetsBegun ==
  \A t \in TaskId : pc[t] \in Holding => target[t] \in Runners /\ Begun(target[t])

ClosedBegun == \A r \in closed : Begun(r)
InitializedDone == \A r \in initialized : pc[r] = "done" /\ config[r] \in Updates
ClosingClosed == \A t \in TaskId : pc[t] \in Closing => target[t] \in closed

\* A running entry is a runner of its model whose init() succeeded.
RunningInitialized ==
  \A m \in Models : models_run[m] # None =>
    models_run[m] \in initialized /\ config[models_run[m]].model = m

TaskInv ==
  /\ TypeOK /\ FreshIdle /\ PruneRemoves /\ AddsBuilt /\ TargetsBegun /\ ClosedBegun
  /\ InitializedDone /\ ClosingClosed /\ RunningInitialized /\ PendingOwned

\* Without TLS probes a runner has a channel as soon as it is registered, so that
\* its close() always suspends, with the channel shut before anyone can dial.
NeverProbes == \A t \in TaskId : pc[t] # "probe"
ClosedNotOpen == \A r \in closed : channel[r] # "open"
ShuttingTended == \A r \in Runners : channel[r] = "closing" => Tended(r)
CloseInv == NeverProbes /\ ClosedNotOpen /\ ShuttingTended /\ ClosedRunnerBeingRemoved

\* The init() of a reported runner is over and failed, or had succeeded before the
\* runner was given to process_failure.
ReportInv ==
  /\ \A r \in reported : pc[r] \in {"sending", "closing", "done"}
  /\ \A t \in TaskId : pc[t] = "fail" => target[t] \in initialized

-----------------------------------------------------------------------------
(***************************************************************************)
(* Events alone: calls start no tasks, no exception leaves a handler, and  *)
(* the orchestrator names a deployment once in an event and runs at most   *)
(* one deployment of a model.  Then an event waits for all of its tasks    *)
(* before the next is taken, and a model has one adding task at a time.    *)
(***************************************************************************)
WellFormed(d) ==
  \A i, j \in 1 .. Len(d) : i # j /\ d[i].model = d[j].model =>
    /\ d[i].deployment # d[j].deployment
    /\ ~(d[i].state = "RUNNING" /\ d[j].state = "RUNNING")

EventsAlone == MaxBackground = 0 /\ ~UsageErrors /\ \A d \in Payloads : WellFormed(d)

Adding == {"add", "replacing"} \cup Starting
Entries == 1 .. Len(eventData)
TaskOf(i) == <<eventNum, i>>

\* Only tasks of the event being handled are at work, and only in their phase.
OnlyThisEvent ==
  /\ phase # "stopped"
  /\ eventNum = 0 => eventData = <<>> /\ phase = "idle"
  /\ \A t \in TaskId : pc[t] \notin {"idle", "done"} =>
       /\ t[1] = eventNum
       /\ \/ t \in EntryTask /\ phase = "updating" /\ t[2] \in Entries
          \/ t \in PruneTask /\ phase = "pruning"

\* The task of a RUNNING entry adds its runner, and closes that one only if it failed.
AdderSteps == \A i \in Entries : LET t == TaskOf(i) IN
  eventData[i].state = "RUNNING" /\ pc[t] # "idle" =>
    /\ pc[t] \in Adding \cup {"sending", "closing", "done"}
    /\ config[t] = eventData[i]
    /\ pc[t] \in {"sending", "closing"} => target[t] = t

\* The task of another entry removes the runner that was found for it, and so does a
\* pruning task for a model the event does not name.
RemoverSteps == \A i \in Entries : LET t == TaskOf(i) IN
  eventData[i].state # "RUNNING" /\ pc[t] # "idle" =>
    /\ pc[t] \in {"remove", "closing", "done"}
    /\ pc[t] # "done" => /\ target[t] \in initialized
                         /\ config[target[t]].model = eventData[i].model
                         /\ config[target[t]].deployment = eventData[i].deployment

PrunerSteps == \A t \in PruneTask : pc[t] \in {"remove", "closing"} =>
  /\ target[t] \in initialized /\ config[target[t]].model = t[2]
  /\ \A i \in Entries : eventData[i].model # t[2]

\* Nobody closes a runner during its init(); its model has no running one then, and
\* no other than the one that is waited for before.
StartingAlone == \A t \in Runners :
  /\ pc[t] \in Starting => t \notin closed /\ models_run[config[t].model] = None
  /\ pc[t] = "replacing" => models_run[config[t].model] \in {None, target[t]}

\* A runner whose init() succeeded runs until it is closed.
InitializedKept ==
  \A r \in initialized : r \in closed \/ models_run[config[r].model] = r

\* An entry that needs no task, or none any more, is served as it says or its runner
\* failed, and what an entry stops does not run unless its task is about to remove it.
Served(u) == /\ models_run[u.model] # None
             /\ config[models_run[u.model]] = u
             /\ models_run[u.model] \notin closed

FailedToServe(i) == /\ models_run[eventData[i].model] = None
                    /\ config[TaskOf(i)] = eventData[i]
                    /\ ReportFailure => TaskOf(i) \in reported

EntriesTaken == \A i \in Entries : LET u == eventData[i] IN
  IF u.state = "RUNNING"
  THEN pc[TaskOf(i)] \notin Adding => Served(u) \/ FailedToServe(i)
  ELSE LET r == models_run[u.model] IN
       r # None /\ config[r].deployment = u.deployment =>
         pc[TaskOf(i)] \in {"remove", "closing"} /\ target[TaskOf(i)] = r

OthersPruned ==
  eventType = "init" /\ phase # "updating" => \A m \in Models : models_run[m] # None =>
    \/ \E i \in Entries : eventData[i].model = m
    \/ pc[<<eventNum, m>>] \in {"remove", "closing"} /\ target[<<eventNum, m>>] = models_run[m]

EventInv ==
  /\ OnlyThisEvent /\ AdderSteps /\ RemoverSteps /\ PrunerSteps /\ StartingAlone
  /\ InitializedKept /\ ClosedRunnerBeingRemoved /\ EntriesTaken /\ OthersPruned
=============================================================================
