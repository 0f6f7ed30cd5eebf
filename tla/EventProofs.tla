---------------------------- MODULE EventProofs ----------------------------
(***************************************************************************)
(* Proofs about ModelCluster when events are the only actors (EventsAlone  *)
(* of ModelClusterInv), with and without TLS probes, for any models, lists *)
(* of entries and numbers of events: LastEventApplied, NoOrphan, NoZombie, *)
(* ListenerSurvives and what follows from them.                            *)
(***************************************************************************)
EXTENDS ModelClusterProofs

\* Without background tasks, a task at work is one of the event's entries or prunes.
LEMMA EventFacts ==
  ASSUME TaskInv, OnlyThisEvent, EventsAlone
  PROVE  /\ Runners = EntryTask /\ TaskId = EntryTask \cup PruneTask
         /\ EntryTask \cap PruneTask = {} /\ None \notin Runners
         /\ WellFormed(eventData)
         /\ \A i \in Entries : /\ TaskOf(i) \in EntryTask
                               /\ eventData[i] \in Updates
                               /\ eventData[i].model \in Models
         /\ \A i, j \in Entries : TaskOf(i) = TaskOf(j) => i = j
         /\ \A t \in EntryTask : pc[t] \notin {"idle", "done"} =>
              phase = "updating" /\ \E i \in Entries : t = TaskOf(i)
         /\ \A t \in PruneTask : pc[t] \notin {"idle", "done"} =>
              phase = "pruning" /\ t = <<eventNum, t[2]>> /\ t[2] \in Models
<1>1. Background = {}
  BY DEF Background, EventsAlone
<1>2. /\ Runners = EntryTask /\ TaskId = EntryTask \cup PruneTask
      /\ EntryTask \cap PruneTask = {} /\ None \notin Runners
  BY <1>1, Names DEF Runners, TaskId
<1>3. /\ eventData \in Payloads \cup {<<>>} /\ eventNum \in 0 .. MaxEvents
      /\ eventNum = 0 => eventData = <<>>
  BY DEF TaskInv, TypeOK, OnlyThisEvent
<1>4. Len(eventData) \in 0 .. MaxData /\ \A i \in Entries : eventData[i] \in Updates
  BY <1>3, ClusterAssumption DEF Entries
<1>5. WellFormed(eventData)
  <2>1. CASE eventData \in Payloads
    BY <2>1 DEF EventsAlone
  <2>2. CASE eventData = <<>>
    BY <2>2 DEF WellFormed
  <2> QED
    BY <1>3, <2>1, <2>2
<1>6. \A i \in Entries : TaskOf(i) \in EntryTask /\ eventData[i].model \in Models
  <2> SUFFICES ASSUME NEW i \in Entries
               PROVE  TaskOf(i) \in EntryTask /\ eventData[i].model \in Models
    OBVIOUS
  <2>1. i \in 1 .. MaxData
    BY <1>4, ClusterAssumption DEF Entries
  <2>2. eventNum \in 1 .. MaxEvents
    BY <1>3, <1>4, ClusterAssumption DEF Entries
  <2> QED
    BY <1>4, <2>1, <2>2, ClusterAssumption DEF TaskOf, EntryTask
<1>7. \A i, j \in Entries : TaskOf(i) = TaskOf(j) => i = j
  BY DEF TaskOf
<1>8. /\ \A t \in EntryTask : t = <<t[1], t[2]>>
      /\ \A t \in PruneTask : t = <<t[1], t[2]>> /\ t[2] \in Models
  BY DEF EntryTask, PruneTask
<1>9. /\ \A t \in EntryTask : pc[t] \notin {"idle", "done"} =>
           phase = "updating" /\ \E i \in Entries : t = TaskOf(i)
      /\ \A t \in PruneTask : pc[t] \notin {"idle", "done"} =>
           phase = "pruning" /\ t = <<eventNum, t[2]>> /\ t[2] \in Models
  <2>1. ASSUME NEW t \in EntryTask, pc[t] \notin {"idle", "done"}
        PROVE  phase = "updating" /\ t[2] \in Entries /\ t = TaskOf(t[2])
    <3>1. t \in TaskId /\ t \notin PruneTask
      BY <1>2
    <3> QED
      BY <2>1, <3>1, <1>8 DEF OnlyThisEvent, TaskOf
  <2>2. ASSUME NEW t \in PruneTask, pc[t] \notin {"idle", "done"}
        PROVE  phase = "pruning" /\ t[1] = eventNum
    BY <1>2, <2>2 DEF OnlyThisEvent
  <2> QED
    BY <1>8, <2>1, <2>2
<1> QED
  BY <1>2, <1>4, <1>5, <1>6, <1>7, <1>9

\* A task that adds is the task of a RUNNING entry, and it is the only one of its model.
LEMMA AdderIsEntry ==
  ASSUME TaskInv, EventInv, EventsAlone, NEW t \in TaskId, pc[t] \in Adding
  PROVE  \E i \in Entries : /\ t = TaskOf(i) /\ t \in Runners
                            /\ eventData[i].state = "RUNNING"
                            /\ config[t] = eventData[i]
<1>1. t \in EntryTask
  BY EventFacts DEF EventInv, TaskInv, PruneRemoves, Adding, Starting
<1>2. PICK i \in Entries : t = TaskOf(i)
  BY <1>1, EventFacts DEF EventInv, Adding, Starting
<1>3. eventData[i].state = "RUNNING"
  BY <1>2 DEF EventInv, RemoverSteps, Adding, Starting
<1> QED
  BY <1>1, <1>2, <1>3, EventFacts DEF EventInv, AdderSteps, Adding, Starting

LEMMA SoleAdder ==
  ASSUME TaskInv, EventInv, EventsAlone, NEW t \in TaskId, pc[t] \in Adding,
         NEW s \in TaskId, pc[s] \in Adding, config[s].model = config[t].model
  PROVE  s = t
BY AdderIsEntry, EventFacts DEF EventInv, WellFormed, Entries

-----------------------------------------------------------------------------
(***************************************************************************)
(* The steps of adding and removing.  Each closes at most one runner,      *)
(* forgets only closed ones, and moves one task.                           *)
(***************************************************************************)
Closed(r) == r \in closed' \ closed

\* Task t moves, entries of models_run disappear only with closed runners, and
\* a pending entry that appears is t's, which is not closed.
Shrinks(t) ==
  /\ UNCHANGED <<config, initialized, reported, event, phase>>
  /\ \A s \in TaskId \ {t} : pc'[s] = pc[s] /\ target'[s] = target[s]
  /\ \A n \in Models : models_run'[n] # models_run[n] =>
       models_run'[n] = None /\ models_run[n] \in closed'
  /\ \A n \in Models : \/ pending'[n] \in {pending[n], None}
                       \/ pending'[n] = t /\ t \notin closed'
  /\ closed \subseteq closed' /\ closed' \subseteq Runners

\* An adding task goes on to init(), or waits for the running one of its model,
AddsOn(t) ==
  /\ pc'[t] \in Starting =>
       t \notin closed' /\ models_run'[config[t].model] = None
  /\ pc'[t] = "replacing" => models_run'[config[t].model] \in {None, target'[t]}
  /\ pc[t] \in Adding => pc'[t] \in Adding

\* a removing one closes its target or, once it is closed, is done with it.
RemovesOn(t) ==
  /\ pc[t] \notin Adding =>
       \/ pc[t] # "closing" /\ pc'[t] = "closing" /\ target'[t] = target[t]
       \/ pc'[t] = "done" /\ \A n \in Models : models_run'[n] # target[t]
  /\ pc[t] \in Closing =>
       \A n \in Models : target[t] \notin {models_run'[n], pending'[n]}

\* The runner that is closed is not starting, serves no entry, and leaves the registry
\* or is waited for.
ClosesOther(t) == \A r \in Runners : Closed(r) =>
  /\ pc[r] \notin Starting
  /\ \A i \in Entries : /\ eventData[i].state = "RUNNING"
                        /\ pc[TaskOf(i)] \notin Adding
                        /\ models_run[eventData[i].model] = r
                        => config[r] # eventData[i]
  /\ \/ \A n \in Models : r \notin {models_run'[n], pending'[n]}
     \/ pc'[t] \in Closing /\ target'[t] = r

\* Such a step keeps the invariant.
LEMMA ShrinkKeeps ==
  ASSUME TaskInv, TaskInv', EventInv, EventsAlone,
         NEW t \in TaskId, pc[t] \notin {"idle", "done"},
         Shrinks(t), AddsOn(t), RemovesOn(t), ClosesOther(t)
  PROVE  EventInv'
<1> USE DEF Adding, Starting, Closing
<1>1. /\ UNCHANGED <<config, initialized, reported, event, phase>>
      /\ \A s \in TaskId \ {t} : pc'[s] = pc[s] /\ target'[s] = target[s]
      /\ \A i \in Entries : TaskOf(i) \in TaskId /\ TaskOf(i) \in Runners
      /\ Entries' = Entries /\ \A i \in Entries : TaskOf(i)' = TaskOf(i)
      /\ Runners \subseteq TaskId /\ PruneTask \subseteq TaskId
  BY EventFacts DEF Shrinks, Entries, TaskOf, event, EventInv
<1>2. OnlyThisEvent'
  BY <1>1 DEF EventInv, OnlyThisEvent, event
<1>3. AdderSteps' /\ RemoverSteps' /\ PrunerSteps'
  <2>1. AdderSteps'
    BY <1>1 DEF EventInv, AdderSteps, AddsOn, RemovesOn, event
  <2>2. RemoverSteps'
    BY <1>1 DEF EventInv, RemoverSteps, AddsOn, RemovesOn, event
  <2>3. PrunerSteps'
    BY <1>1 DEF EventInv, PrunerSteps, AddsOn, RemovesOn, event, TaskInv, PruneRemoves
  <2> QED
    BY <2>1, <2>2, <2>3
<1>4. StartingAlone' /\ InitializedKept'
  <2>1. \A r \in Runners : config[r] \in Updates => config[r].model \in Models
    BY ClusterAssumption
  <2>2. \A r \in Runners : pc[r] \in Adding => config[r].model \in Models
    BY <1>1, <2>1 DEF TaskInv, AddsBuilt
  <2>3. StartingAlone'
    <3> SUFFICES ASSUME NEW r \in Runners
                 PROVE  /\ pc'[r] \in Starting =>
                             r \notin closed' /\ models_run'[config[r].model] = None
                        /\ pc'[r] = "replacing" =>
                             models_run'[config[r].model] \in {None, target'[r]}
      BY <1>1 DEF StartingAlone
    <3>1. CASE r = t
      BY <3>1 DEF AddsOn
    <3>2. CASE r # t
      BY <1>1, <2>2, <3>2 DEF EventInv, StartingAlone, Shrinks, ClosesOther, Closed
    <3> QED
      BY <3>1, <3>2
  <2>4. \A r \in initialized : r \in Runners /\ config[r].model \in Models
    BY <2>1 DEF TaskInv, TypeOK, InitializedDone
  <2>5. InitializedKept'
    BY <1>1, <2>4 DEF EventInv, InitializedKept, Shrinks
  <2> QED
    BY <2>3, <2>5
<1>5. ClosedRunnerBeingRemoved'
  <2> SUFFICES ASSUME NEW r \in closed', Registered(r)'
               PROVE  Tended(r)'
    BY DEF ClosedRunnerBeingRemoved
  <2>0. r \in Runners
    BY DEF Shrinks
  <2>1. CASE r \notin closed
    <3>1. pc'[t] \in Closing /\ target'[t] = r
      BY <2>0, <2>1 DEF ClosesOther, Closed, Registered
    <3> QED
      BY <3>1 DEF Tended
  <2>2. CASE r \in closed
    <3>1. Registered(r)
      BY <2>0, EventFacts DEF Registered, Shrinks, EventInv
    <3>2. PICK s \in TaskId : pc[s] \in Closing /\ target[s] = r
      BY <2>2, <3>1 DEF EventInv, ClosedRunnerBeingRemoved, Tended
    <3>3. s # t
      BY <3>2 DEF RemovesOn, Registered
    <3> QED
      BY <1>1, <3>2, <3>3 DEF Tended
  <2> QED
    BY <2>1, <2>2
<1>6. EntriesTaken'
  <2> SUFFICES ASSUME NEW i \in Entries
               PROVE  LET u == eventData[i] IN
                 IF u.state = "RUNNING"
                 THEN pc'[TaskOf(i)] \notin Adding => Served(u)' \/ FailedToServe(i)'
                 ELSE LET r == models_run'[u.model] IN
                      r # None /\ config[r].deployment = u.deployment =>
                        pc'[TaskOf(i)] \in {"remove", "closing"} /\ target'[TaskOf(i)] = r
    BY <1>1 DEF EntriesTaken, event
  <2> DEFINE m == eventData[i].model
  <2>0. m \in Models /\ models_run'[m] \in {models_run[m], None}
    BY EventFacts DEF Shrinks, EventInv
  <2>1. CASE eventData[i].state = "RUNNING" /\ pc'[TaskOf(i)] \notin Adding
    <3>1. pc[TaskOf(i)] \notin Adding
      BY <1>1, <2>1 DEF AddsOn
    <3>2. CASE Served(eventData[i])
      <4>1. models_run[m] \in Runners
        BY <2>0, <3>2 DEF Served, TaskInv, TypeOK
      <4>2. models_run[m] \notin closed'
        BY <2>1, <3>1, <3>2, <4>1 DEF Served, ClosesOther, Closed
      <4> QED
        BY <1>1, <2>0, <2>1, <3>2, <4>2 DEF Served, Shrinks, event
    <3>3. CASE FailedToServe(i)
      BY <1>1, <2>0, <2>1, <3>3 DEF FailedToServe, TaskOf, event
    <3> QED
      BY <2>1, <3>1, <3>2, <3>3 DEF EventInv, EntriesTaken
  <2>2. CASE /\ eventData[i].state # "RUNNING" /\ models_run'[m] # None
             /\ config[models_run'[m]].deployment = eventData[i].deployment
    <3>1. /\ models_run'[m] = models_run[m]
          /\ pc[TaskOf(i)] \in {"remove", "closing"} /\ target[TaskOf(i)] = models_run[m]
      BY <2>0, <2>2 DEF EventInv, EntriesTaken
    <3>2. CASE TaskOf(i) = t
      BY <2>0, <2>2, <3>1, <3>2 DEF RemovesOn
    <3> QED
      BY <1>1, <2>2, <3>1, <3>2
  <2> QED
    BY <2>1, <2>2
<1>7. OthersPruned'
  <2> SUFFICES ASSUME eventType = "init", phase # "updating", NEW m \in Models,
                      models_run'[m] # None, \A i \in Entries : eventData[i].model # m
               PROVE  /\ pc'[<<eventNum, m>>] \in {"remove", "closing"}
                      /\ target'[<<eventNum, m>>] = models_run'[m]
    BY <1>1, Zenon DEF OthersPruned, event
  <2> DEFINE p == <<eventNum, m>>
  <2>1. /\ models_run'[m] = models_run[m]
        /\ pc[p] \in {"remove", "closing"} /\ target[p] = models_run[m]
    BY DEF EventInv, OthersPruned, Shrinks
  <2>2. t \in PruneTask /\ t = <<eventNum, t[2]>> /\ t[2] \in Models
    BY EventFacts DEF EventInv
  <2>3. CASE m = t[2]
    BY <2>1, <2>2, <2>3 DEF RemovesOn
  <2>4. CASE m # t[2]
    <3>1. p # t
      BY <2>2, <2>4
    <3>2. p \in TaskId
      <4>1. eventNum \in 1 .. MaxEvents
        BY <2>2, Names
      <4> QED
        BY <4>1, EventFacts DEF PruneTask, EventInv
    <3> QED
      BY <1>1, <2>1, <3>1, <3>2
  <2> QED
    BY <2>3, <2>4
<1> QED
  BY <1>2, <1>3, <1>4, <1>5, <1>6, <1>7 DEF EventInv

\* A running entry is a runner of its model, whose init() is over and succeeded.
LEMMA RunningFacts ==
  ASSUME TaskInv, NEW n \in Models, models_run[n] # None
  PROVE  /\ models_run[n] \in initialized /\ models_run[n] \in Runners
         /\ config[models_run[n]].model = n /\ pc[models_run[n]] = "done"
BY DEF TaskInv, TypeOK, RunningInitialized, InitializedDone

\* The start of add_model_runner keeps the invariant: only the task itself could have a
\* pending runner of its model, so what it replaces is the running one.
LEMMA AddStartKeeps ==
  ASSUME TaskInv, TaskInv', EventInv, EventsAlone, NEW t \in TaskId, AddStart(t)
  PROVE  EventInv'
<1> USE DEF Adding, Starting, Closing
<1> DEFINE m == config[t].model
           c == Current(models_run, pending, m)
<1>1. PICK i \in Entries : /\ t = TaskOf(i) /\ t \in Runners
                           /\ eventData[i].state = "RUNNING" /\ config[t] = eventData[i]
  BY AdderIsEntry DEF AddStart
<1>2. /\ pc[t] = "add" /\ m \in Models /\ TypeOK
      /\ models_run \in RegistryMap /\ pending \in RegistryMap /\ channel \in Channels
      /\ UNCHANGED <<config, initialized, reported, event, phase>>
      /\ Add(t, m, models_run, pending, channel)
  BY <1>1, EventFacts DEF AddStart, TaskInv, TypeOK, RegistryMap, Channels, EventInv
<1>3. c = models_run[m]
  <2>1. CASE models_run[m] = None /\ pending[m] # None
    <3>1. pending[m] \in TaskId /\ pc[pending[m]] \in Starting /\ config[pending[m]].model = m
      BY <1>2, <2>1, Names DEF TaskInv, PendingOwned, RegistryMap
    <3>2. pending[m] = t
      BY <1>2, <3>1, SoleAdder
    <3> QED
      BY <1>2, <3>1, <3>2
  <2> QED
    BY <2>1 DEF Current
<1>4. LET cc == Current(models_run, pending, m) IN
    /\ cc \in Runners \cup {None}
    /\ closed' = closed \cup ({cc} \ {None})
    /\ models_run' \in RegistryMap /\ pending' \in RegistryMap /\ channel' \in Channels
    /\ \A n \in Models : models_run'[n] # models_run[n] =>
         models_run'[n] = None /\ models_run[n] = cc
    /\ \/ /\ pc' = [pc EXCEPT ![t] = IF Secure THEN "probe" ELSE "init"]
          /\ target' = [target EXCEPT ![t] = None]
          /\ \A n \in Models : (pending'[n] = t /\ n = m) \/ pending'[n] \in {pending[n], None}
          /\ cc # None => channel[cc] = "none" /\ \A n \in Models :
                            models_run'[n] # cc /\ (pending'[n] # cc \/ cc = t)
       \/ /\ pc' = [pc EXCEPT ![t] = "replacing"]
          /\ target' = [target EXCEPT ![t] = cc]
          /\ cc # None
          /\ models_run' = models_run /\ pending' = pending
  BY <1>1, <1>2, AddEffect
<1> HIDE DEF c, m
<1>5. /\ c \in Runners \cup {None}
      /\ closed' = closed \cup ({c} \ {None})
      /\ \A n \in Models : models_run'[n] # models_run[n] =>
           models_run'[n] = None /\ models_run[n] = c
      /\ \/ /\ pc' = [pc EXCEPT ![t] = IF Secure THEN "probe" ELSE "init"]
            /\ target' = [target EXCEPT ![t] = None]
            /\ \A n \in Models : pending'[n] = t \/ pending'[n] \in {pending[n], None}
            /\ c # None => \A n \in Models : models_run'[n] # c /\ (pending'[n] # c \/ c = t)
         \/ /\ pc' = [pc EXCEPT ![t] = "replacing"]
            /\ target' = [target EXCEPT ![t] = c]
            /\ c # None
            /\ models_run' = models_run /\ pending' = pending
  BY <1>4 DEF c
<1>6. c # None => c \in initialized /\ config[c].model = m /\ pc[c] = "done" /\ c # t
  BY <1>2, <1>3, RunningFacts
<1>7. t \notin closed'
  BY <1>2, <1>5, <1>6 DEF TaskInv, ClosedBegun, Begun
<1>8. /\ pc'[t] \in Adding /\ closed' \subseteq Runners
      /\ \A s \in TaskId \ {t} : pc'[s] = pc[s] /\ target'[s] = target[s]
  BY <1>2, <1>5 DEF TypeOK
<1>9. Shrinks(t)
  BY <1>2, <1>5, <1>7, <1>8 DEF Shrinks
<1>10. AddsOn(t)
  BY <1>2, <1>3, <1>5, <1>7, <1>8 DEF AddsOn, m, TypeOK
<1>11. RemovesOn(t)
  BY <1>2 DEF RemovesOn
<1>12. ClosesOther(t)
  <2> SUFFICES ASSUME NEW r \in Runners, Closed(r)
               PROVE  /\ pc[r] \notin Starting
                      /\ \A j \in Entries : /\ eventData[j].state = "RUNNING"
                                            /\ pc[TaskOf(j)] \notin Adding
                                            /\ models_run[eventData[j].model] = r
                                            => config[r] # eventData[j]
                      /\ \/ \A n \in Models : r \notin {models_run'[n], pending'[n]}
                         \/ pc'[t] \in Closing /\ target'[t] = r
    BY DEF ClosesOther
  <2>1. r = c /\ c # None
    BY <1>5 DEF Closed
  <2>2. \A j \in Entries : eventData[j].state = "RUNNING" /\ eventData[j].model = m => j = i
    BY <1>1, EventFacts DEF EventInv, WellFormed, Entries, m
  <2>3. \/ \A n \in Models : r \notin {models_run'[n], pending'[n]}
        \/ pc'[t] \in Closing /\ target'[t] = r
    BY <1>2, <1>5, <1>6, <2>1 DEF TypeOK
  <2> QED
    BY <1>1, <1>2, <1>6, <2>1, <2>2, <2>3
<1> QED
  BY <1>2, <1>9, <1>10, <1>11, <1>12, ShrinkKeeps

\* So does remove_model_runner up to its await, of a runner that an entry stops, an
\* `init' event does not name, or whose own init() failed,
LEMMA RemoveKeeps ==
  ASSUME TaskInv, TaskInv', EventInv, EventsAlone, NEW t \in TaskId,
         pc[t] \in {"remove", "sending"}, Remove(t, target[t], "closing"),
         UNCHANGED <<config, initialized, reported, event, phase>>
  PROVE  EventInv'
<1> USE DEF Adding, Starting, Closing
<1> DEFINE r == target[t]
<1>1. TypeOK /\ r \in Runners /\ pc[r] \notin Starting
  <2>1. CASE t \in PruneTask
    <3>1. r \in initialized
      BY <2>1 DEF EventInv, PrunerSteps, TaskInv, PruneRemoves
    <3> QED
      BY <3>1 DEF TaskInv, TypeOK, InitializedDone
  <2>2. CASE t \in EntryTask
    <3>1. PICK i \in Entries : t = TaskOf(i)
      BY <2>2, EventFacts DEF EventInv
    <3>2. r \in initialized \/ r = t
      BY <3>1 DEF EventInv, AdderSteps, RemoverSteps
    <3>3. r \in Runners
      BY EventFacts, <2>2, <3>2 DEF TaskInv, TypeOK, EventInv
    <3> QED
      BY <3>2, <3>3 DEF TaskInv, InitializedDone
  <2> QED
    BY <2>1, <2>2, EventFacts DEF EventInv
<1> HIDE DEF r
<1>2. /\ closed' = closed \cup {r}
      /\ \/ /\ models_run' = Forget(models_run, r) /\ pending' = Forget(pending, r)
            /\ pc' = [pc EXCEPT ![t] = "done"] /\ target' = [target EXCEPT ![t] = None]
         \/ /\ models_run' = models_run /\ pending' = pending
            /\ pc' = [pc EXCEPT ![t] = "closing"] /\ target' = [target EXCEPT ![t] = r]
  BY DEF Remove, registry, r
<1>3. \A n \in Models : /\ models_run'[n] # models_run[n] =>
                             models_run'[n] = None /\ models_run[n] = r
                        /\ pending'[n] \in {pending[n], None}
                        /\ pc'[t] = "done" => r \notin {models_run'[n], pending'[n]}
  BY <1>1, <1>2, EventFacts DEF Forget, TypeOK, EventInv
<1>4. /\ Shrinks(t) /\ AddsOn(t) /\ RemovesOn(t)
  BY <1>1, <1>2, <1>3 DEF Shrinks, AddsOn, RemovesOn, TypeOK, r
<1>5. ClosesOther(t)
  <2> SUFFICES ASSUME NEW j \in Entries, eventData[j].state = "RUNNING",
                      models_run[eventData[j].model] = r
               PROVE  config[r] # eventData[j]
    BY <1>1, <1>2, <1>3 DEF ClosesOther, Closed, TypeOK
  <2>1. /\ r # None /\ eventData[j].model \in Models
        /\ r \in initialized /\ config[r].model = eventData[j].model /\ pc[r] = "done"
    BY <1>1, EventFacts, RunningFacts DEF EventInv
  <2>2. CASE t \in PruneTask
    BY <2>1, <2>2 DEF EventInv, PrunerSteps, TaskInv, PruneRemoves, r
  <2>3. CASE t \in EntryTask
    <3>1. PICK i \in Entries : t = TaskOf(i)
      BY <2>3, EventFacts DEF EventInv
    <3>2. r # t
      BY <2>1
    <3>3. /\ eventData[i].state # "RUNNING"
          /\ config[r].model = eventData[i].model
          /\ config[r].deployment = eventData[i].deployment
      BY <3>1, <3>2 DEF EventInv, AdderSteps, RemoverSteps, r
    <3>4. i # j => eventData[i].deployment # eventData[j].deployment
      BY <2>1, <3>3, EventFacts DEF EventInv, WellFormed, Entries
    <3> QED
      BY <3>3, <3>4
  <2> QED
    BY <2>2, <2>3, EventFacts DEF EventInv
<1> QED
  BY <1>4, <1>5, ShrinkKeeps

\* and the deletions once close() has returned, in remove_model_runner
LEMMA RemoveEndKeeps ==
  ASSUME TaskInv, TaskInv', EventInv, EventsAlone, NEW t \in TaskId, RemoveEnd(t)
  PROVE  EventInv'
<1> USE DEF Adding, Starting, Closing
<1>1. /\ TypeOK /\ target[t] \in Runners /\ target[t] \in closed /\ pc[t] = "closing"
      /\ UNCHANGED <<config, closed, initialized, reported, event, phase>>
      /\ pc' = [pc EXCEPT ![t] = "done"] /\ target' = [target EXCEPT ![t] = None]
  BY DEF RemoveEnd, TaskInv, TargetsBegun, Holding, ClosingClosed
<1>2. \A n \in Models : /\ models_run'[n] # models_run[n] =>
                             models_run'[n] = None /\ models_run[n] = target[t]
                        /\ pending'[n] \in {pending[n], None}
                        /\ target[t] \notin {models_run'[n], pending'[n]}
  BY <1>1, EventFacts DEF RemoveEnd, Forget, TypeOK, EventInv
<1>3. Shrinks(t) /\ AddsOn(t) /\ RemovesOn(t) /\ ClosesOther(t)
  BY <1>1, <1>2 DEF Shrinks, AddsOn, RemovesOn, ClosesOther, Closed, TypeOK
<1> QED
  BY <1>1, <1>3, ShrinkKeeps

\* or in add_model_runner, which goes on to init().
LEMMA ReplaceEndKeeps ==
  ASSUME TaskInv, TaskInv', EventInv, EventsAlone, NEW t \in TaskId, ReplaceEnd(t)
  PROVE  EventInv'
<1> USE DEF Adding, Starting, Closing
<1> DEFINE m == config[t].model
<1>1. /\ TypeOK /\ target[t] \in Runners /\ target[t] \in closed /\ pc[t] = "replacing"
      /\ UNCHANGED <<config, closed, initialized, reported, event, phase>>
      /\ \E q \in Starting : pc' = [pc EXCEPT ![t] = q]
      /\ target' = [target EXCEPT ![t] = None]
      /\ models_run' = Forget(models_run, target[t])
      /\ pending' = [Forget(pending, target[t]) EXCEPT ![m] = t]
  BY DEF ReplaceEnd, BeginInit, TaskInv, TargetsBegun, Holding, ClosingClosed
<1>2. m \in Models /\ t \in Runners /\ t \notin closed /\ target[t] # t
  BY <1>1, EventFacts, AdderIsEntry DEF TaskInv, ClosedBegun, Begun, EventInv
<1> HIDE DEF m
<1>3. \A n \in Models : /\ models_run'[n] # models_run[n] =>
                             models_run'[n] = None /\ models_run[n] = target[t]
                        /\ pending'[n] \in {pending[n], None} \/ pending'[n] = t
                        /\ target[t] \notin {models_run'[n], pending'[n]}
  BY <1>1, <1>2, EventFacts DEF Forget, TypeOK, EventInv
<1>4. models_run'[m] = None
  <2>1. models_run[m] \in {None, target[t]}
    BY <1>1, <1>2 DEF EventInv, StartingAlone, m
  <2> QED
    BY <1>1, <1>2, <2>1 DEF Forget
<1>5. Shrinks(t) /\ AddsOn(t) /\ RemovesOn(t) /\ ClosesOther(t)
  BY <1>1, <1>2, <1>3, <1>4 DEF Shrinks, AddsOn, RemovesOn, ClosesOther, Closed, TypeOK, m
<1> QED
  BY <1>1, <1>5, ShrinkKeeps

\* A dial and a new attempt change nothing the invariant speaks of.
LEMMA AttemptKeeps ==
  ASSUME TaskInv, TaskInv', EventInv, EventsAlone, NEW t \in TaskId, Dial(t) \/ Retry(t)
  PROVE  EventInv'
<1> USE DEF Adding, Starting, Closing
<1>1. /\ TypeOK /\ pc[t] \in Starting
      /\ UNCHANGED <<registry, config, closed, initialized, reported, target, event, phase>>
      /\ \E q \in Starting : pc' = [pc EXCEPT ![t] = q]
  BY DEF Dial, Retry, TaskInv
<1>2. t \in Runners
  BY <1>1, AdderIsEntry
<1>3. Shrinks(t) /\ AddsOn(t) /\ RemovesOn(t) /\ ClosesOther(t)
  BY <1>1, <1>2 DEF Shrinks, AddsOn, RemovesOn, ClosesOther, Closed, TypeOK, registry,
     EventInv, StartingAlone
<1> QED
  BY <1>1, <1>3, ShrinkKeeps

-----------------------------------------------------------------------------
(***************************************************************************)
(* The ends of an init().                                                  *)
(***************************************************************************)

\* What is known when the init() of an entry's runner ends.
LEMMA StartingFacts ==
  ASSUME TaskInv, EventInv, EventsAlone, NEW t \in TaskId, pc[t] \in Starting
  PROVE  /\ t \in Runners /\ t \notin closed /\ t \notin initialized /\ phase = "updating"
         /\ config[t].model \in Models /\ models_run[config[t].model] = None
         /\ \E i \in Entries : /\ t = TaskOf(i) /\ config[t] = eventData[i]
                               /\ eventData[i].state = "RUNNING"
         /\ \A s \in TaskId \ {t} : pc[s] \in Adding => config[s].model # config[t].model
<1> USE DEF Adding, Starting
<1>1. PICK i \in Entries : /\ t = TaskOf(i) /\ t \in Runners /\ config[t] = eventData[i]
                           /\ eventData[i].state = "RUNNING"
  BY AdderIsEntry
<1>2. t \in EntryTask /\ config[t].model \in Models
  BY <1>1, EventFacts DEF EventInv
<1>3. phase = "updating"
  BY <1>2, EventFacts DEF EventInv
<1>4. t \notin closed /\ models_run[config[t].model] = None
  BY <1>1 DEF EventInv, StartingAlone
<1>5. t \notin initialized
  BY DEF TaskInv, InitializedDone
<1>6. \A s \in TaskId \ {t} : pc[s] \in Adding => config[s].model # config[t].model
  BY SoleAdder
<1> QED
  BY <1>1, <1>2, <1>3, <1>4, <1>5, <1>6

\* A success makes the runner the running one of its model, which had none; other
\* entries of that model stop other deployments.
LEMMA InitOkKeeps ==
  ASSUME TaskInv, TaskInv', EventInv, EventsAlone, NEW t \in TaskId, InitOk(t)
  PROVE  EventInv'
<1> USE DEF Adding, Starting, Closing
<1> DEFINE m == config[t].model
<1>0. pc[t] = "init"
  BY DEF InitOk
<1>1. PICK i \in Entries : /\ t = TaskOf(i) /\ config[t] = eventData[i]
                           /\ eventData[i].state = "RUNNING"
  BY <1>0, StartingFacts
<1>2. /\ t \in Runners /\ t \notin closed /\ t \notin initialized /\ phase = "updating"
      /\ m \in Models /\ models_run[m] = None
      /\ \A s \in TaskId \ {t} : pc[s] \in Adding => config[s].model # m
      /\ None \notin Runners
  BY <1>0, StartingFacts, EventFacts DEF EventInv
<1>3. /\ TypeOK /\ UNCHANGED <<config, closed, reported, target, event, phase>>
      /\ initialized' = initialized \cup {t}
      /\ pc' = [pc EXCEPT ![t] = "done"]
      /\ models_run' = [models_run EXCEPT ![m] = t]
      /\ \A n \in Models : pending'[n] \in {pending[n], None}
  BY DEF InitOk, InitLeft, Forget, TaskInv
<1> HIDE DEF m
<1>4. /\ models_run'[m] = t /\ \A n \in Models \ {m} : models_run'[n] = models_run[n]
      /\ pc'[t] = "done" /\ \A s \in TaskId \ {t} : pc'[s] = pc[s]
      /\ Entries' = Entries
      /\ \A j \in Entries : TaskOf(j)' = TaskOf(j) /\ TaskOf(j) \in Runners
      /\ \A j \in Entries : TaskOf(j) = t => j = i
      /\ Runners \subseteq TaskId /\ PruneTask \subseteq TaskId
  BY <1>1, <1>2, <1>3, EventFacts DEF TypeOK, Entries, TaskOf, event, EventInv
<1>5. OnlyThisEvent' /\ AdderSteps'
  BY <1>0, <1>1, <1>3, <1>4 DEF EventInv, OnlyThisEvent, AdderSteps, event
<1>6. RemoverSteps' /\ PrunerSteps'
  BY <1>3, <1>4 DEF EventInv, RemoverSteps, PrunerSteps, event
<1>7. StartingAlone'
  <2> SUFFICES ASSUME NEW s \in Runners, s # t
               PROVE  /\ pc[s] \in Starting =>
                           s \notin closed /\ models_run'[config[s].model] = None
                      /\ pc[s] = "replacing" =>
                           models_run'[config[s].model] \in {None, target[s]}
    BY <1>3, <1>4 DEF StartingAlone
  <2>1. pc[s] \in Adding => config[s].model \in Models \ {m}
    BY <1>2, <1>4, AdderIsEntry, EventFacts DEF EventInv
  <2> QED
    BY <1>4, <2>1 DEF EventInv, StartingAlone
<1>8. InitializedKept'
  <2>1. \A r \in initialized : config[r].model \in Models /\ r # None
    BY <1>2, <1>3, ClusterAssumption DEF TaskInv, TypeOK, InitializedDone
  <2> QED
    BY <1>2, <1>3, <1>4, <2>1 DEF EventInv, InitializedKept, m
<1>9. ClosedRunnerBeingRemoved'
  <2> SUFFICES ASSUME NEW r \in closed, Registered(r)'
               PROVE  \E s \in TaskId : pc'[s] \in Closing /\ target'[s] = r
    BY <1>3 DEF ClosedRunnerBeingRemoved, Tended
  <2>1. r \in Runners /\ r # t /\ r # None
    BY <1>2, <1>3 DEF TypeOK
  <2>2. Registered(r)
    BY <1>3, <1>4, <2>1 DEF Registered
  <2>3. PICK s \in TaskId : pc[s] \in Closing /\ target[s] = r
    BY <2>2 DEF EventInv, ClosedRunnerBeingRemoved, Tended
  <2>4. s # t
    BY <1>0, <2>3
  <2> QED
    BY <1>3, <1>4, <2>3, <2>4
<1>10. EntriesTaken'
  <2> SUFFICES ASSUME NEW j \in Entries
               PROVE  LET u == eventData[j] IN
                 IF u.state = "RUNNING"
                 THEN pc'[TaskOf(j)] \notin Adding => Served(u)' \/ FailedToServe(j)'
                 ELSE LET r == models_run'[u.model] IN
                      r # None /\ config[r].deployment = u.deployment =>
                        pc'[TaskOf(j)] \in {"remove", "closing"} /\ target[TaskOf(j)] = r
    BY <1>3, <1>4 DEF EntriesTaken, event
  <2>1. CASE j = i
    BY <1>1, <1>2, <1>3, <1>4, <2>1 DEF Served, m, event
  <2>2. ASSUME j # i, eventData[j].model = m
        PROVE  /\ eventData[j].state # "RUNNING"
               /\ eventData[j].deployment # eventData[i].deployment
    BY <1>1, <2>2, EventFacts DEF EventInv, WellFormed, Entries, m
  <2>3. CASE j # i /\ eventData[j].model = m
    BY <1>1, <1>4, <2>2, <2>3
  <2>4. CASE j # i /\ eventData[j].model # m
    <3>1. eventData[j].model \in Models \ {m} /\ TaskOf(j) # t /\ TaskOf(j) \in TaskId
      BY <1>4, <2>4, EventFacts DEF EventInv
    <3>2. Served(eventData[j]) => Served(eventData[j])'
      BY <1>3, <1>4, <3>1 DEF Served, event
    <3>3. FailedToServe(j) => FailedToServe(j)'
      BY <1>3, <1>4, <3>1 DEF FailedToServe, event
    <3> QED
      BY <1>3, <1>4, <3>1, <3>2, <3>3 DEF EventInv, EntriesTaken
  <2> QED
    BY <2>1, <2>3, <2>4
<1>11. OthersPruned'
  BY <1>2, <1>3 DEF OthersPruned
<1> QED
  BY <1>5, <1>6, <1>7, <1>8, <1>9, <1>10, <1>11 DEF EventInv

\* A failure leaves the model without a runner; the task closes its own.
LEMMA InitFailedKeeps ==
  ASSUME TaskInv, TaskInv', EventInv, EventsAlone, NEW t \in TaskId, InitFailed(t)
  PROVE  EventInv'
<1> USE DEF Adding, Starting, Closing
<1>0. pc[t] \in Starting
  BY DEF InitFailed
<1>1. PICK i \in Entries : /\ t = TaskOf(i) /\ config[t] = eventData[i]
                           /\ eventData[i].state = "RUNNING"
  BY <1>0, StartingFacts
<1>2. /\ t \in Runners /\ phase = "updating" /\ None \notin Runners
      /\ models_run[config[t].model] = None
  BY <1>0, StartingFacts, EventFacts DEF EventInv
<1>3. /\ TypeOK /\ UNCHANGED <<models_run, config, closed, initialized, event, phase>>
      /\ \A n \in Models : pending'[n] \in {pending[n], None}
      /\ reported \subseteq reported' /\ (ReportFailure => t \in reported')
      /\ \E q \in {"sending", "done"}, r \in {t, None} :
           /\ pc' = [pc EXCEPT ![t] = q] /\ target' = [target EXCEPT ![t] = r]
           /\ q = "sending" => r = t
  BY DEF InitFailed, InitLeft, Fail, Forget, TaskInv
<1>4. /\ pc'[t] \in {"sending", "done"} /\ (pc'[t] = "sending" => target'[t] = t)
      /\ \A s \in TaskId \ {t} : pc'[s] = pc[s] /\ target'[s] = target[s]
      /\ Entries' = Entries
      /\ \A j \in Entries : TaskOf(j)' = TaskOf(j) /\ TaskOf(j) \in Runners
      /\ \A j \in Entries : TaskOf(j) = t => j = i
      /\ Runners \subseteq TaskId /\ PruneTask \subseteq TaskId /\ t \notin PruneTask
  BY <1>1, <1>2, <1>3, EventFacts DEF TypeOK, Entries, TaskOf, event, EventInv
<1>5. OnlyThisEvent' /\ AdderSteps'
  BY <1>0, <1>1, <1>3, <1>4 DEF EventInv, OnlyThisEvent, AdderSteps, event
<1>6. RemoverSteps' /\ PrunerSteps'
  BY <1>1, <1>3, <1>4 DEF EventInv, RemoverSteps, PrunerSteps, event
<1>7. StartingAlone' /\ InitializedKept'
  BY <1>3, <1>4 DEF EventInv, StartingAlone, InitializedKept
<1>8. ClosedRunnerBeingRemoved'
  <2> SUFFICES ASSUME NEW r \in closed, Registered(r)'
               PROVE  \E s \in TaskId : pc'[s] \in Closing /\ target'[s] = r
    BY <1>3 DEF ClosedRunnerBeingRemoved, Tended
  <2>1. Registered(r)
    BY <1>2, <1>3 DEF Registered, TypeOK
  <2>2. PICK s \in TaskId : pc[s] \in Closing /\ target[s] = r
    BY <2>1 DEF EventInv, ClosedRunnerBeingRemoved, Tended
  <2>3. s # t
    BY <1>0, <2>2
  <2> QED
    BY <1>4, <2>2, <2>3
<1>9. EntriesTaken'
  <2> SUFFICES ASSUME NEW j \in Entries
               PROVE  LET u == eventData[j] IN
                 IF u.state = "RUNNING"
                 THEN pc'[TaskOf(j)] \notin Adding => Served(u)' \/ FailedToServe(j)'
                 ELSE LET r == models_run[u.model] IN
                      r # None /\ config[r].deployment = u.deployment =>
                        pc'[TaskOf(j)] \in {"remove", "closing"} /\ target'[TaskOf(j)] = r
    BY <1>3, <1>4 DEF EntriesTaken, event
  <2>1. CASE j = i
    BY <1>1, <1>2, <1>3, <1>4, <2>1 DEF FailedToServe, event
  <2>2. CASE j # i
    <3>1. TaskOf(j) \in TaskId \ {t}
      BY <1>4, <2>2
    <3>2. Served(eventData[j]) => Served(eventData[j])'
      BY <1>3 DEF Served, event
    <3>3. FailedToServe(j) => FailedToServe(j)'
      BY <1>3, <1>4 DEF FailedToServe, event
    <3> QED
      BY <1>4, <3>1, <3>2, <3>3 DEF EventInv, EntriesTaken
  <2> QED
    BY <2>1, <2>2
<1>10. OthersPruned'
  BY <1>2, <1>3 DEF OthersPruned
<1> QED
  BY <1>5, <1>6, <1>7, <1>8, <1>9, <1>10 DEF EventInv

\* Calls started nothing and nothing was raised: these steps are not taken.
LEMMA NotTaken ==
  ASSUME TaskInv, EventInv, EventsAlone, NEW t \in TaskId
  PROVE  /\ ~InitAborted(t) /\ ~InitRaised(t) /\ ~FailStart(t)
         /\ ~ReconnectStart(t) /\ ~ReconnectOldClosed(t) /\ ~HandlerLeft
         /\ \A r \in Runners : ~Spawn(r)
<1> USE DEF Adding, Starting, Closing
<1>1. ~InitAborted(t) /\ ~InitRaised(t)
  BY StartingFacts DEF InitAborted, InitRaised, EventsAlone
<1>2. \A s \in TaskId : pc[s] \notin {"fail", "reconnect", "reconnecting", "raised", "cancelled"}
  <2> SUFFICES ASSUME NEW s \in TaskId, pc[s] \notin {"idle", "done"}
               PROVE  pc[s] \notin {"fail", "reconnect", "reconnecting", "raised", "cancelled"}
    OBVIOUS
  <2>1. CASE s \in PruneTask
    BY <2>1 DEF TaskInv, PruneRemoves
  <2>2. CASE s \in EntryTask
    <3>1. PICK i \in Entries : s = TaskOf(i)
      BY <2>2, EventFacts DEF EventInv
    <3> QED
      BY <3>1 DEF EventInv, AdderSteps, RemoverSteps
  <2> QED
    BY <2>1, <2>2, EventFacts DEF EventInv
<1>3. ThisEvent(EntryTask) \subseteq TaskId /\ Background = {}
  BY EventFacts DEF ThisEvent, EventInv, Background, EventsAlone
<1> QED
  BY <1>1, <1>2, <1>3 DEF FailStart, ReconnectStart, ReconnectOldClosed, HandlerLeft, Spawn

-----------------------------------------------------------------------------
(***************************************************************************)
(* The steps of handle_event.                                              *)
(***************************************************************************)

\* Between two events no task is at work, no init() is under way and no closed
\* runner is registered.
LEMMA IdleFacts ==
  ASSUME TaskInv, EventInv, EventsAlone, \A t \in TaskId : pc[t] \in {"idle", "done"}
  PROVE  /\ \A m \in Models : pending[m] = None
         /\ \A r \in closed : ~Registered(r)
         /\ \A m \in Models : models_run[m] # None =>
              /\ models_run[m] \in initialized /\ models_run[m] \in Runners
              /\ models_run[m] \notin closed /\ pc[models_run[m]] = "done"
              /\ config[models_run[m]].model = m
<1> USE DEF Starting, Closing
<1>1. \A m \in Models : pending[m] = None
  <2> SUFFICES ASSUME NEW m \in Models, pending[m] # None  PROVE FALSE
    OBVIOUS
  <2>1. pending[m] \in TaskId /\ pc[pending[m]] \in Starting
    BY Names DEF TaskInv, TypeOK, PendingOwned
  <2> QED
    BY <2>1
<1>2. \A r \in closed : ~Registered(r)
  BY DEF EventInv, ClosedRunnerBeingRemoved, Tended
<1> QED
  BY <1>1, <1>2, RunningFacts DEF Registered

\* The handler goes back to the listener.
LEMMA HandledKeeps ==
  ASSUME TaskInv, EventInv, EventsAlone, \A t \in TaskId : pc[t] \in {"idle", "done"},
         UNCHANGED <<registry, config, closed, channel, initialized, reported, pc, target, event>>,
         phase' = "idle", eventType = "update" \/ phase = "pruning"
  PROVE  EventInv'
<1>1. OnlyThisEvent' /\ AdderSteps' /\ RemoverSteps' /\ PrunerSteps'
  BY DEF EventInv, OnlyThisEvent, AdderSteps, RemoverSteps, PrunerSteps, TaskOf, Entries, event
<1>2. StartingAlone' /\ InitializedKept' /\ ClosedRunnerBeingRemoved'
  BY DEF EventInv, StartingAlone, InitializedKept, ClosedRunnerBeingRemoved, Registered,
     Tended, registry
<1>3. EntriesTaken' /\ OthersPruned'
  BY DEF EventInv, EntriesTaken, Served, FailedToServe, OthersPruned, TaskOf, Entries,
     registry, event
<1> QED
  BY <1>1, <1>2, <1>3 DEF EventInv

LEMMA PruneDoneKeeps ==
  ASSUME TaskInv, EventInv, EventsAlone, PruneDone
  PROVE  EventInv'
<1>1. \A t \in TaskId : pc[t] \in {"idle", "done"}
  BY EventFacts DEF PruneDone, ThisEvent, EventInv
<1> QED
  BY <1>1, HandledKeeps DEF PruneDone

\* An `init' event goes on to prune: a task for each running model it does not name.
LEMMA UpdatesDoneKeeps ==
  ASSUME TaskInv, EventInv, EventsAlone, UpdatesDone
  PROVE  EventInv'
<1> USE DEF Adding, Starting, Closing
<1>1. \A t \in TaskId : pc[t] \in {"idle", "done"}
  BY EventFacts DEF UpdatesDone, ThisEvent, TaskOf, EventInv
<1>2. /\ TypeOK /\ phase = "updating"
      /\ UNCHANGED <<models_run, pending, config, closed, channel, initialized, reported,
                     eventNum, eventType, eventData>>
  BY DEF UpdatesDone, TaskInv, registry, event
<1>3. CASE eventType = "update" /\ phase' = "idle" /\ UNCHANGED <<pc, target>>
  BY <1>1, <1>3, HandledKeeps DEF UpdatesDone
<1>4. CASE eventType = "init"
  <2> DEFINE absent == {m \in Models : /\ models_run[m] # None
                                       /\ \A i \in 1 .. Len(eventData) :
                                            eventData[i].model # m}
             prune == {t \in ThisEvent(PruneTask) : t[2] \in absent}
  <2>1. /\ phase' = "pruning"
        /\ pc' = [t \in TaskId |-> IF t \in prune THEN "remove" ELSE pc[t]]
        /\ target' = [t \in TaskId |-> IF t \in prune THEN models_run[t[2]]
                                       ELSE target[t]]
    BY <1>4 DEF UpdatesDone
  <2>2. \A t \in prune : /\ t \in PruneTask /\ t[1] = eventNum /\ t[2] \in Models
                         /\ models_run[t[2]] # None
                         /\ \A i \in Entries : eventData[i].model # t[2]
    BY DEF ThisEvent, Entries
  <2>3. \A m \in Models : models_run[m] # None =>
          (\E i \in Entries : eventData[i].model = m) \/ <<eventNum, m>> \in prune
    <3> SUFFICES ASSUME NEW m \in absent  PROVE <<eventNum, m>> \in prune
      BY DEF Entries
    <3>1. eventNum \in 1 .. MaxEvents
      BY <1>2, ClusterAssumption DEF EventInv, OnlyThisEvent, TypeOK
    <3> QED
      BY <3>1 DEF ThisEvent, PruneTask
  <2> HIDE DEF absent, prune
  <2>4. /\ \A t \in prune : pc'[t] = "remove" /\ target'[t] = models_run[t[2]]
        /\ \A t \in TaskId \ prune : pc'[t] = pc[t] /\ target'[t] = target[t]
        /\ \A t \in EntryTask : t \in TaskId \ prune
        /\ \A i \in Entries : TaskOf(i) \in EntryTask
        /\ Entries' = Entries /\ \A i \in Entries : TaskOf(i)' = TaskOf(i)
    BY <1>2, <2>1, <2>2, EventFacts DEF TaskOf, Entries, EventInv
  <2>5. OnlyThisEvent'
    BY <1>1, <1>2, <2>1, <2>2, <2>4, EventFacts DEF EventInv, OnlyThisEvent
  <2>6. AdderSteps' /\ RemoverSteps'
    BY <1>2, <2>4 DEF EventInv, AdderSteps, RemoverSteps
  <2>7. PrunerSteps'
    <3> SUFFICES ASSUME NEW t \in PruneTask, pc'[t] \in {"remove", "closing"}
                 PROVE  /\ target'[t] \in initialized /\ config[target'[t]].model = t[2]
                        /\ \A i \in Entries : eventData[i].model # t[2]
      BY <1>2, <2>4 DEF PrunerSteps
    <3>1. t \in prune
      BY <1>1, <2>4, EventFacts DEF EventInv
    <3> QED
      BY <2>2, <2>4, <3>1, RunningFacts
  <2>8. StartingAlone' /\ InitializedKept'
    BY <1>2, <2>4, EventFacts DEF EventInv, StartingAlone, InitializedKept
  <2>9. ClosedRunnerBeingRemoved'
    BY <1>1, <1>2, IdleFacts DEF ClosedRunnerBeingRemoved, Registered
  <2>10. EntriesTaken'
    <3>1. \A i \in Entries : /\ Served(eventData[i]) => Served(eventData[i])'
                             /\ FailedToServe(i) => FailedToServe(i)'
      BY <1>2, <2>4 DEF Served, FailedToServe
    <3> QED
      BY <1>2, <2>4, <3>1 DEF EventInv, EntriesTaken
  <2>11. OthersPruned'
    BY <1>2, <2>3, <2>4 DEF OthersPruned
  <2> QED
    BY <2>5, <2>6, <2>7, <2>8, <2>9, <2>10, <2>11 DEF EventInv
<1> QED
  BY <1>3, <1>4 DEF UpdatesDone

\* update_model_runs of the next event starts from what the last one left: entries get
\* a task, or name a running deployment at its address.
LEMMA ReceiveEventKeeps ==
  ASSUME TaskInv, TaskInv', EventInv, EventsAlone,
         NEW type \in {"init", "update"}, NEW data \in Payloads, ReceiveEvent(type, data)
  PROVE  EventInv'
<1> USE DEF Adding, Starting, Closing
<1> DEFINE n == eventNum + 1
           adding == {<<n, i>> : i \in {j \in 1 .. Len(data) : Adds(data[j])}}
           removing == {<<n, i>> : i \in {j \in 1 .. Len(data) : Removes(data[j])}}
           latest(r) == {i \in 1 .. Len(data) : Refreshes(data[i], r)
                           /\ \A j \in 1 .. Len(data) : Refreshes(data[j], r) => j <= i}
           last(r) == CHOOSE i \in latest(r) : TRUE
<1>1. /\ TypeOK /\ Len(data) \in 0 .. MaxData /\ phase = "idle" /\ WellFormed(data)
      /\ \A i \in 1 .. Len(data) : data[i] \in Updates /\ data[i].model \in Models
                                   /\ data[i].state \in States
      /\ n \in 1 .. MaxEvents /\ n # 0
  BY ClusterAssumption DEF TaskInv, ReceiveEvent, TypeOK, EventsAlone
<1>2. \A t \in TaskId : pc[t] \in {"idle", "done"}
  BY <1>1, EventFacts DEF EventInv
<1>3. /\ eventNum' = n /\ eventType' = type /\ eventData' = data /\ phase' = "updating"
      /\ pc' = [t \in TaskId |-> IF t \in adding THEN "add"
                                ELSE IF t \in removing THEN "remove" ELSE pc[t]]
      /\ target' = [t \in TaskId |-> IF t \in removing THEN Found(data[t[2]])
                                    ELSE target[t]]
      /\ config' = [r \in Runners |-> IF r \in adding THEN data[r[2]]
                                     ELSE IF latest(r) = {} THEN config[r]
                                     ELSE data[last(r)]]
      /\ UNCHANGED <<models_run, pending, closed, initialized, reported>>
  BY DEF ReceiveEvent, registry
<1>4. /\ \A m \in Models : pending[m] = None
      /\ \A r \in closed : ~Registered(r)
      /\ \A m \in Models : models_run[m] # None =>
           /\ models_run[m] \in initialized /\ models_run[m] \in Runners
           /\ models_run[m] \notin closed /\ pc[models_run[m]] = "done"
           /\ config[models_run[m]].model = m
      /\ None \notin Runners
  BY <1>2, IdleFacts, Names
<1>5. \A i \in 1 .. Len(data) : LET r == models_run[data[i].model] IN
        /\ Found(data[i]) = IF r # None /\ config[r].deployment = data[i].deployment
                            THEN r ELSE None
        /\ \A q : Refreshes(data[i], q) => q = r /\ r # None /\ data[i].state = "RUNNING"
                                           /\ config[r].deployment = data[i].deployment
        /\ data[i].state = "RUNNING" =>
             /\ ~Removes(data[i])
             /\ ~Adds(data[i]) => r # None /\ Refreshes(data[i], r)
        /\ data[i].state # "RUNNING" =>
             /\ ~Adds(data[i])
             /\ Removes(data[i]) <=> r # None /\ config[r].deployment = data[i].deployment
  BY <1>1, <1>4 DEF Found, Current, SameAddress, Adds, Removes, Refreshes, States
<1>6. /\ \A i \in 1 .. Len(data) : <<n, i>> \in EntryTask /\ pc[<<n, i>>] = "idle"
      /\ \A i \in 1 .. Len(data) : <<n, i>> \in adding <=> Adds(data[i])
      /\ \A i \in 1 .. Len(data) : <<n, i>> \in removing <=> Removes(data[i])
  <2>1. ASSUME NEW i \in 1 .. Len(data)
        PROVE  <<n, i>> \in EntryTask /\ pc[<<n, i>>] = "idle"
    <3>1. i \in 1 .. MaxData
      BY <1>1, ClusterAssumption
    <3>2. <<n, i>> \in EntryTask
      BY <1>1, <3>1 DEF EntryTask
    <3>3. <<n, i>> \in TaskId /\ n > eventNum
      BY <1>1, <3>2, Names DEF TypeOK
    <3> QED
      BY <3>2, <3>3 DEF TaskInv, FreshIdle
  <2>2. \A i \in 1 .. Len(data) : <<n, i>> \in adding <=> Adds(data[i])
    OBVIOUS
  <2>3. \A i \in 1 .. Len(data) : <<n, i>> \in removing <=> Removes(data[i])
    OBVIOUS
  <2> QED
    BY <2>1, <2>2, <2>3
<1>7. \A t \in adding \cup removing : \E i \in 1 .. Len(data) : t = <<n, i>>
  OBVIOUS
<1>8. \A r \in Runners \ adding :
        \/ latest(r) = {} /\ config'[r] = config[r]
        \/ \E i \in 1 .. Len(data) : Refreshes(data[i], r) /\ config'[r] = data[i]
  BY <1>3
<1>9. \A i \in 1 .. Len(data), r \in Runners :
        Refreshes(data[i], r) =>
          latest(r) # {} /\ \A j \in 1 .. Len(data) : Refreshes(data[j], r) => j = i
  <2> SUFFICES ASSUME NEW i \in 1 .. Len(data), NEW r \in Runners, Refreshes(data[i], r)
               PROVE  /\ \A j \in 1 .. Len(data) : Refreshes(data[j], r) => j = i
                      /\ latest(r) # {}
    OBVIOUS
  <2>1. \A j \in 1 .. Len(data) : Refreshes(data[j], r) => j = i
    <3> SUFFICES ASSUME NEW j \in 1 .. Len(data), Refreshes(data[j], r)
                 PROVE  j = i
      OBVIOUS
    <3>1. /\ r = models_run[data[i].model] /\ r = models_run[data[j].model] /\ r # None
          /\ data[i].state = "RUNNING" /\ data[j].state = "RUNNING"
      BY <1>5
    <3>2. data[j].model = data[i].model
      <4>1. data[i].model \in Models /\ data[j].model \in Models
        BY <1>1
      <4>2. config[r].model = data[i].model
        BY <1>4, <3>1, <4>1
      <4>3. config[r].model = data[j].model
        BY <1>4, <3>1, <4>1
      <4> QED
        BY <4>2, <4>3
    <3> QED
      BY <1>1, <3>1, <3>2 DEF WellFormed
  <2>2. i \in latest(r)
    BY <2>1
  <2> QED
    BY <2>1, <2>2
<1> HIDE DEF n, adding, removing, latest, last
<1>10. /\ Entries' = 1 .. Len(data) /\ \A i \in Entries' : TaskOf(i)' = <<n, i>>
       /\ \A i \in Entries' : TaskOf(i)' \in TaskId /\ TaskOf(i)' \in Runners
       /\ \A i \in Entries' : \/ Adds(data[i]) /\ pc'[<<n, i>>] = "add"
                              \/ Removes(data[i]) /\ pc'[<<n, i>>] = "remove"
                                 /\ target'[<<n, i>>] = Found(data[i])
                              \/ pc'[<<n, i>>] = "idle" /\ ~Adds(data[i]) /\ ~Removes(data[i])
       /\ \A t \in TaskId : pc'[t] \in {"idle", "done", "add", "remove"}
       /\ \A t \in TaskId : pc'[t] \notin {"idle", "done"} =>
            \E i \in Entries' : t = <<n, i>>
  <2>1. Entries' = 1 .. Len(data) /\ \A i \in Entries' : TaskOf(i)' = <<n, i>>
    BY <1>3 DEF Entries, TaskOf
  <2>2. \A i \in Entries' : <<n, i>> \in TaskId /\ <<n, i>> \in Runners
    BY <1>6, <2>1, EventFacts DEF EventInv
  <2>3. \A i \in Entries' : ~(Adds(data[i]) /\ Removes(data[i]))
    BY <2>1, <1>5
  <2> QED
    BY <1>2, <1>3, <1>6, <1>7, <2>1, <2>2, <2>3
<1>11. \A r \in initialized :
         /\ r \in Runners \ adding
         /\ config'[r].model = config[r].model
         /\ config'[r].deployment = config[r].deployment
  <2>1. \A r \in initialized : r \in Runners /\ pc[r] = "done"
    BY DEF TaskInv, TypeOK, InitializedDone
  <2>2. \A r \in initialized : r \in Runners \ adding
    BY <1>6, <1>7, <2>1, Zenon
  <2>3. \A r \in Runners, i \in 1 .. Len(data) : Refreshes(data[i], r) =>
          data[i].model = config[r].model /\ data[i].deployment = config[r].deployment
    <3> SUFFICES ASSUME NEW r \in Runners, NEW i \in 1 .. Len(data), Refreshes(data[i], r)
                 PROVE  data[i].model = config[r].model /\ data[i].deployment = config[r].deployment
      OBVIOUS
    <3>1. /\ r = models_run[data[i].model] /\ r # None
          /\ config[r].deployment = data[i].deployment
      BY <1>5
    <3> QED
      BY <1>1, <1>4, <3>1
  <2> QED
    BY <1>8, <2>2, <2>3
<1>12. OnlyThisEvent'
  <2>1. \A t \in TaskId : pc'[t] \notin {"idle", "done"} =>
          t[1] = n /\ t \in EntryTask /\ t[2] \in Entries'
    BY <1>6, <1>10
  <2> QED
    BY <1>1, <1>3, <2>1 DEF OnlyThisEvent
<1>13. AdderSteps'
  <2> SUFFICES ASSUME NEW i \in Entries', data[i].state = "RUNNING", pc'[<<n, i>>] # "idle"
               PROVE  pc'[<<n, i>>] = "add" /\ config'[<<n, i>>] = data[i]
    BY <1>3 DEF AdderSteps, TaskOf
  <2>1. Adds(data[i]) /\ pc'[<<n, i>>] = "add"
    BY <1>5, <1>10
  <2> QED
    BY <1>3, <1>6, <1>10, <2>1
<1>14. RemoverSteps'
  <2> SUFFICES ASSUME NEW i \in Entries', data[i].state # "RUNNING", pc'[<<n, i>>] # "idle"
               PROVE  /\ pc'[<<n, i>>] = "remove"
                      /\ target'[<<n, i>>] \in initialized
                      /\ config'[target'[<<n, i>>]].model = data[i].model
                      /\ config'[target'[<<n, i>>]].deployment = data[i].deployment
    <3>1. eventNum' = n /\ eventData' = data /\ initialized' = initialized
      BY <1>3
    <3> QED
      BY <3>1 DEF RemoverSteps, TaskOf
  <2>1. Removes(data[i]) /\ pc'[<<n, i>>] = "remove" /\ target'[<<n, i>>] = Found(data[i])
    BY <1>5, <1>10
  <2> QED
    BY <1>1, <1>4, <1>5, <1>10, <1>11, <2>1
<1>15. PrunerSteps'
  <2>1. \A t \in PruneTask : pc'[t] \in {"idle", "done"}
    BY <1>6, <1>10, EventFacts DEF EventInv
  <2> QED
    BY <2>1 DEF PrunerSteps
<1>16. StartingAlone' /\ OthersPruned'
  BY <1>3, <1>10, Names DEF StartingAlone, OthersPruned
<1>17. InitializedKept'
  BY <1>3, <1>11 DEF EventInv, InitializedKept
<1>18. ClosedRunnerBeingRemoved'
  BY <1>3, <1>4 DEF ClosedRunnerBeingRemoved, Registered
<1>19. EntriesTaken'
  <2> SUFFICES ASSUME NEW i \in Entries'
               PROVE  LET r == models_run[data[i].model] IN
                 IF data[i].state = "RUNNING"
                 THEN pc'[<<n, i>>] # "add" =>
                        r # None /\ config'[r] = data[i] /\ r \notin closed
                 ELSE r # None /\ config'[r].deployment = data[i].deployment =>
                        pc'[<<n, i>>] = "remove" /\ target'[<<n, i>>] = r
    BY <1>3 DEF EntriesTaken, Served, TaskOf
  <2> DEFINE r == models_run[data[i].model]
  <2>1. CASE data[i].state = "RUNNING" /\ pc'[<<n, i>>] # "add"
    <3>1. r # None /\ Refreshes(data[i], r)
      BY <1>5, <1>10, <2>1
    <3>2. r \in initialized /\ r \notin closed
      BY <1>1, <1>4, <1>10, <3>1
    <3>3. config'[r] = data[i]
      BY <1>8, <1>9, <1>10, <1>11, <3>1, <3>2
    <3> QED
      BY <2>1, <3>1, <3>2, <3>3
  <2>2. CASE /\ data[i].state # "RUNNING" /\ r # None
             /\ config'[r].deployment = data[i].deployment
    BY <1>1, <1>4, <1>5, <1>10, <1>11, <2>2
  <2> QED
    BY <2>1, <2>2
<1> QED
  BY <1>12, <1>13, <1>14, <1>15, <1>16, <1>17, <1>18, <1>19 DEF EventInv

-----------------------------------------------------------------------------
LEMMA InitEventInv == Init /\ EventsAlone => EventInv
<1> SUFFICES ASSUME Init, EventsAlone  PROVE EventInv
  OBVIOUS
<1>1. /\ eventNum = 0 /\ eventData = <<>> /\ eventType = "init" /\ phase = "idle"
      /\ initialized = {} /\ closed = {}
      /\ \A t \in TaskId : pc[t] = "idle"
      /\ \A m \in Models : models_run[m] = None
      /\ Runners \subseteq TaskId /\ PruneTask \subseteq TaskId /\ Entries = {}
  BY Names DEF Init, Entries
<1>2. OnlyThisEvent /\ AdderSteps /\ RemoverSteps /\ PrunerSteps
  BY <1>1 DEF OnlyThisEvent, AdderSteps, RemoverSteps, PrunerSteps
<1>3. StartingAlone /\ InitializedKept /\ ClosedRunnerBeingRemoved
  BY <1>1 DEF StartingAlone, InitializedKept, ClosedRunnerBeingRemoved, Starting
<1>4. EntriesTaken /\ OthersPruned
  BY <1>1 DEF EntriesTaken, OthersPruned
<1> QED
  BY <1>2, <1>3, <1>4 DEF EventInv

\* EventInv is inductive relative to TaskInv when events are the only actors.
THEOREM NextEventInv ==
  ASSUME EventsAlone, TaskInv, EventInv, [Next]_vars
  PROVE  EventInv'
<1>1. TaskInv'
  BY NextTaskInv
<1>2. ASSUME NEW type \in {"init", "update"}, NEW data \in Payloads, ReceiveEvent(type, data)
      PROVE  EventInv'
  BY <1>1, <1>2, ReceiveEventKeeps
<1>3. CASE Handler
  <2>1. ~HandlerLeft
    <3>1. \A t \in ThisEvent(EntryTask) : t \in TaskId
      BY Names DEF ThisEvent
    <3> QED
      BY <3>1, NotTaken DEF HandlerLeft
  <2> QED
    BY <1>3, <2>1, UpdatesDoneKeeps, PruneDoneKeeps DEF Handler
<1>4. ASSUME NEW t \in TaskId, Work(t)  PROVE EventInv'
  <2>1. CASE AddStart(t)
    BY <1>1, <2>1, AddStartKeeps
  <2>2. CASE RemoveStart(t) \/ SendDone(t)
    BY <1>1, <2>2, RemoveKeeps DEF RemoveStart, SendDone
  <2>3. CASE RemoveEnd(t) \/ ReplaceEnd(t)
    BY <1>1, <2>3, RemoveEndKeeps, ReplaceEndKeeps
  <2>4. CASE Dial(t)
    BY <1>1, <2>4, AttemptKeeps
  <2> QED
    BY <1>4, <2>1, <2>2, <2>3, <2>4, NotTaken DEF Work
<1>5. ASSUME NEW t \in Runners, Retry(t) \/ InitReturns(t)  PROVE EventInv'
  <2>1. t \in TaskId
    BY Names
  <2> QED
    BY <1>1, <1>5, <2>1, AttemptKeeps, InitOkKeeps, InitFailedKeeps, NotTaken DEF InitReturns
<1>6. ASSUME NEW r \in Runners  PROVE ~Spawn(r)
  <2>1. r \in TaskId
    BY Names
  <2> QED
    BY <2>1, NotTaken
<1>7. CASE UNCHANGED vars
  <2>1. OnlyThisEvent' /\ AdderSteps' /\ RemoverSteps' /\ PrunerSteps'
    BY <1>7 DEF EventInv, OnlyThisEvent, AdderSteps, RemoverSteps, PrunerSteps, TaskOf,
       Entries, vars
  <2>2. StartingAlone' /\ InitializedKept' /\ ClosedRunnerBeingRemoved'
    BY <1>7 DEF EventInv, StartingAlone, InitializedKept, ClosedRunnerBeingRemoved,
       Registered, Tended, vars
  <2>3. EntriesTaken' /\ OthersPruned'
    BY <1>7 DEF EventInv, EntriesTaken, Served, FailedToServe, OthersPruned, TaskOf,
       Entries, vars
  <2> QED
    BY <2>1, <2>2, <2>3 DEF EventInv
<1> QED
  BY <1>2, <1>3, <1>4, <1>5, <1>6, <1>7 DEF Next

\* With events alone, what TaskInv and EventInv say holds whenever a task suspends.
THEOREM EventInvariant ==
  ASSUME EventsAlone PROVE Spec => [](TaskInv /\ EventInv)
<1>1. Init => EventInv
  BY InitEventInv
<1>2. TaskInv /\ EventInv /\ [Next]_vars => EventInv'
  BY NextEventInv
<1> QED
  BY <1>1, <1>2, TaskInvariant, PTL DEF Spec

\* With events alone, and failures reported, the registry of a quiet coordinator is
\* what the last event asked for: RUNNING entries run as they say or were reported,
\* the others do not, and after an `init' event nothing else does.
THEOREM EventsApplied ==
  ASSUME EventsAlone, ReportFailure PROVE Spec => []LastEventApplied
<1>1. TaskInv /\ EventInv => LastEventApplied
  <2> SUFFICES ASSUME TaskInv, EventInv, Quiet, eventNum > 0
               PROVE  /\ \A i \in Entries : Applied(eventData[i])
                      /\ eventType = "init" => \A m \in Models : models_run[m] # None =>
                           \E i \in Entries : eventData[i].model = m
    BY DEF LastEventApplied, Entries
  <2>1. /\ \A t \in TaskId : pc[t] \notin Adding \cup {"remove", "closing"}
        /\ phase = "idle"
        /\ \A i \in Entries : TaskOf(i) \in TaskId /\ TaskOf(i) \in Runners
    BY EventFacts DEF Quiet, Adding, Starting, Ended, EventInv
  <2>2. ASSUME NEW i \in Entries  PROVE Applied(eventData[i])
    <3>1. CASE eventData[i].state = "RUNNING"
      <4>1. Served(eventData[i]) \/ FailedToServe(i)
        BY <2>1, <3>1 DEF EventInv, EntriesTaken
      <4>2. FailedToServe(i) =>
              TaskOf(i) \in reported /\ TaskOf(i)[1] = eventNum /\ Serves(eventData[i], TaskOf(i))
        BY DEF FailedToServe, TaskOf, Serves
      <4> QED
        BY <3>1, <4>1, <4>2 DEF Applied, Served, FailedToServe
    <3>2. CASE eventData[i].state # "RUNNING"
      BY <2>1, <3>2 DEF EventInv, EntriesTaken, Applied
    <3> QED
      BY <3>1, <3>2
  <2>3. ASSUME eventType = "init", NEW m \in Models, models_run[m] # None
        PROVE  \E i \in Entries : eventData[i].model = m
    <3>1. CASE eventNum \in 1 .. MaxEvents
      <4>1. <<eventNum, m>> \in TaskId
        BY <3>1 DEF TaskId, PruneTask
      <4> QED
        BY <2>1, <2>3, <4>1 DEF EventInv, OthersPruned
    <3> QED
      BY <3>1, ClusterAssumption DEF TaskInv, TypeOK
  <2> QED
    BY <2>2, <2>3
<1> QED
  BY <1>1, EventInvariant, PTL

\* With events alone, reported or not, no deployment that the last event stops runs
\* once its tasks have ended.
THEOREM StoppedAreRemoved ==
  ASSUME EventsAlone PROVE Spec => []StoppedRemoved
<1>1. TaskInv /\ EventInv => StoppedRemoved
  <2> SUFFICES ASSUME TaskInv, EventInv, Quiet, NEW i \in Entries,
                      eventData[i].state # "RUNNING", models_run[eventData[i].model] # None
               PROVE  config[models_run[eventData[i].model]].deployment # eventData[i].deployment
    BY DEF StoppedRemoved, Entries
  <2>1. TaskOf(i) \in TaskId
    BY EventFacts DEF EventInv
  <2> QED
    BY <2>1 DEF Quiet, Ended, EventInv, EntriesTaken
<1> QED
  BY <1>1, EventInvariant, PTL

\* With events alone no connection is lost: a runner whose init() succeeded is
\* registered until it is closed.
THEOREM NoOrphanOfEvents ==
  ASSUME EventsAlone PROVE Spec => []NoOrphan
<1>1. TaskInv /\ EventInv => NoOrphan
  <2> SUFFICES ASSUME TaskInv, EventInv, NEW r \in initialized, r \notin closed
               PROVE  Registered(r)
    BY DEF NoOrphan
  <2>1. config[r].model \in Models
    BY ClusterAssumption DEF TaskInv, InitializedDone
  <2>2. models_run[config[r].model] = r
    BY DEF EventInv, InitializedKept
  <2> QED
    BY <2>1, <2>2 DEF Registered
<1> QED
  BY <1>1, EventInvariant, PTL

\* With events alone, TLS probes or not, a closed runner that is registered is about to
\* be removed by a task that waits at its close(),
THEOREM ClosedRunnersLeaveOfEvents ==
  ASSUME EventsAlone PROVE Spec => []ClosedRunnerBeingRemoved
<1>1. EventInv => ClosedRunnerBeingRemoved
  BY DEF EventInv
<1> QED
  BY <1>1, EventInvariant, PTL

\* so that a quiet coordinator has none.
THEOREM NoZombieOfEvents ==
  ASSUME EventsAlone PROVE Spec => []NoZombie
BY QuietHasNoZombie, ClosedRunnersLeaveOfEvents, PTL

\* With events alone, no task closes a runner whose init() is under way, so no Setup
\* call is cancelled and the listener goes on to the next event.
THEOREM ListenerSurvivesEvents ==
  ASSUME EventsAlone PROVE Spec => []ListenerSurvives
<1>1. EventInv => ListenerSurvives
  BY DEF EventInv, OnlyThisEvent, ListenerSurvives
<1> QED
  BY <1>1, EventInvariant, PTL
=============================================================================
