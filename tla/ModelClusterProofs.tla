------------------------- MODULE ModelClusterProofs -------------------------
(***************************************************************************)
(* Proofs about ModelCluster, for every value of its constants.            *)
(***************************************************************************)
EXTENDS ModelClusterInv, TLAPS

\* The names of tasks: a prune task never is a runner, as no model is a number.
LEMMA Names ==
  /\ TaskId = Runners \cup PruneTask
  /\ Runners \cap PruneTask = {}
  /\ Background \subseteq Runners /\ EntryTask \subseteq Runners
  /\ None \notin Runners
  /\ \A t \in EntryTask \cup PruneTask : t[1] \in 1 .. MaxEvents
  /\ \A t \in EntryTask : t[2] \in 1 .. MaxData
  /\ \A t \in PruneTask : t[2] \in Models
  /\ \A t \in Background : t[1] = 0
  /\ \A t \in TaskId : t[1] \in Int
<1>1. EntryTask \cap PruneTask = {}
  BY ClusterAssumption, SMT DEF EntryTask, PruneTask
<1>2. Background \cap PruneTask = {}
  BY ClusterAssumption, SMT DEF Background, PruneTask
<1>3. /\ \A t \in EntryTask \cup PruneTask : t[1] \in 1 .. MaxEvents
      /\ \A t \in EntryTask : t[2] \in 1 .. MaxData
      /\ \A t \in PruneTask : t[2] \in Models
      /\ \A t \in Background : t[1] = 0
  BY SMT DEF EntryTask, PruneTask, Background
<1> QED
  BY <1>1, <1>2, <1>3, ClusterAssumption, SMT DEF TaskId, Runners

\* The registry is empty and no task has begun.
LEMMA InitTaskInv == Init => TaskInv
<1> SUFFICES ASSUME Init PROVE TaskInv
  OBVIOUS
<1>1. TypeOK
  BY ClusterAssumption DEF Init, TypeOK, PCs
<1>2. FreshIdle /\ PruneRemoves /\ AddsBuilt /\ TargetsBegun /\ ClosedBegun
  BY Names, Zenon DEF Init, FreshIdle, PruneRemoves, AddsBuilt, TargetsBegun,
     ClosedBegun, Begun, Holding, Closing, Starting
<1>3. InitializedDone /\ ClosingClosed /\ RunningInitialized /\ PendingOwned
  BY Names, SMT DEF Init, InitializedDone, ClosingClosed, RunningInitialized,
     PendingOwned, Holding, Closing
<1> QED
  BY <1>1, <1>2, <1>3 DEF TaskInv

RegistryMap == [Models -> Runners \cup {None}]
Channels == [Runners -> {"none", "open", "closing", "shut"}]

\* add_model_runner either waits for the close of the runner it found or starts
\* init() as the pending runner of its model; entries disappear only with the
\* runner that is closed.
LEMMA AddEffect ==
  ASSUME NEW t \in Runners, NEW m \in Models, NEW run \in RegistryMap,
         NEW pend \in RegistryMap, NEW ch \in Channels, TypeOK, 
         Add(t, m, run, pend, ch)
  PROVE  LET c == Current(run, pend, m) IN
    /\ c \in Runners \cup {None}
    /\ closed' = closed \cup ({c} \ {None})
    /\ models_run' \in RegistryMap /\ pending' \in RegistryMap /\ channel' \in Channels
    /\ \A n \in Models : models_run'[n] # run[n] => models_run'[n] = None /\ run[n] = c
    /\ \/ /\ pc' = [pc EXCEPT ![t] = IF Secure THEN "probe" ELSE "init"]
          /\ target' = [target EXCEPT ![t] = None]
          /\ \A n \in Models : (pending'[n] = t /\ n = m) \/ pending'[n] \in {pend[n], None}
          /\ c # None => ch[c] = "none" /\ \A n \in Models :
                           models_run'[n] # c /\ (pending'[n] # c \/ c = t)
          /\ channel' = IF Secure THEN ch ELSE [ch EXCEPT ![t] = "open"]
       \/ /\ pc' = [pc EXCEPT ![t] = "replacing"]
          /\ target' = [target EXCEPT ![t] = c]
          /\ c # None
          /\ models_run' = run /\ pending' = pend
          /\ channel' = ShutBegin(ch, c)
<1> DEFINE c == Current(run, pend, m)
<1> USE Names
<1>1. c \in Runners \cup {None}
  BY DEF Current, RegistryMap
<1> HIDE DEF c
<1>2. CASE c = None /\ BeginInit(t, m, pend, ch) /\ models_run' = run /\ UNCHANGED closed
  BY <1>1, <1>2 DEF BeginInit, RegistryMap, Channels, c
<1>3. CASE /\ c # None /\ ch[c] = "none" /\ closed' = closed \cup {c}
           /\ models_run' = Forget(run, c) /\ BeginInit(t, m, Forget(pend, c), ch)
  BY <1>1, <1>3 DEF BeginInit, Forget, RegistryMap, Channels, c
<1>4. CASE /\ c # None /\ ch[c] # "none" /\ closed' = closed \cup {c}
           /\ models_run' = run /\ pending' = pend /\ channel' = ShutBegin(ch, c)
           /\ pc' = [pc EXCEPT ![t] = "replacing"] /\ target' = [target EXCEPT ![t] = c]
  BY <1>1, <1>4 DEF ShutBegin, RegistryMap, Channels, c
<1> QED
  BY <1>2, <1>3, <1>4 DEF Add, c

\* What every step of one task leaves as it was.
Framed == UNCHANGED <<initialized, event, phase>>

\* A step of one task keeps the tasks of later events and of pruning fresh.
LEMMA Counters ==
  ASSUME TaskInv, NEW t \in TaskId, UNCHANGED <<event, phase>>,
         NEW q \in PCs \ {"idle"},
         pc[t] # "idle", pc' = [pc EXCEPT ![t] = q],
         t \in PruneTask => q \in {"remove", "closing", "done"}
  PROVE  FreshIdle' /\ PruneRemoves'
BY Names DEF TaskInv, TypeOK, FreshIdle, PruneRemoves, event

\* add_model_runner, from the registry as it is or with a runner just forgotten.
LEMMA AddTaskInv ==
  ASSUME TaskInv, Framed, UNCHANGED reported,
         NEW t \in TaskId, pc[t] \in {"add", "reconnecting"},
         NEW m \in Models, NEW run \in RegistryMap, NEW pend \in RegistryMap,
         \A n \in Models : run[n] \in {models_run[n], None},
         \A n \in Models : pend[n] \in {pending[n], None},
         NEW ch \in Channels,
         config' \in [Runners -> Updates \cup {None}],
         \A r \in Runners \ {t} : config'[r] = config[r],
         config'[t] \in Updates, config'[t].model = m,
         Add(t, m, run, pend, ch)
  PROVE  TaskInv'
<1> DEFINE c == Current(run, pend, m)
<1> USE Names DEF PCs, Scheduled, Starting, Closing, Ended, Holding, Framed
<1>1. t \in Runners
  BY DEF TaskInv, PruneRemoves
<1>2. TypeOK
  BY DEF TaskInv
<1>3. c # None => c # t /\ Begun(c) /\ Begun(c)'
  <2>1. c \in Runners \cup {None}
    BY DEF Current, RegistryMap
  <2>2. c # None => \E n \in Models : models_run[n] = c \/ pending[n] = c
    BY DEF Current, RegistryMap
  <2>3. c # None => Begun(c) /\ c # t
    BY <1>2, <2>1, <2>2 DEF TaskInv, TypeOK, AddsBuilt, InitializedDone,
       RunningInitialized, PendingOwned, Begun
  <2>4. \E q \in PCs : pc' = [pc EXCEPT ![t] = q]
    BY <1>1, <1>2, AddEffect
  <2> HIDE DEF c
  <2> QED
    BY <1>2, <2>1, <2>3, <2>4 DEF TypeOK, Begun
<1> HIDE DEF c
<1>4. /\ c \in Runners \cup {None}
      /\ closed' = closed \cup ({c} \ {None})
      /\ models_run' \in RegistryMap /\ pending' \in RegistryMap /\ channel' \in Channels
      /\ \A n \in Models : models_run'[n] \in {models_run[n], None}
  BY <1>1, <1>2, AddEffect DEF c, RegistryMap
<1>5. \E q \in {"probe", "init", "replacing"} :
        /\ pc' = [pc EXCEPT ![t] = q]
        /\ \/ /\ q # "replacing"
              /\ target' = [target EXCEPT ![t] = None]
              /\ \A n \in Models : (pending'[n] = t /\ n = m) \/ pending'[n] \in {pending[n], None}
           \/ /\ q = "replacing"
              /\ c # None
              /\ target' = [target EXCEPT ![t] = c]
              /\ \A n \in Models : pending'[n] \in {pending[n], None}
  BY <1>1, <1>2, AddEffect DEF c, RegistryMap
<1>6. TypeOK'
  BY <1>1, <1>2, <1>4, <1>5 DEF TypeOK, RegistryMap, Channels, event
<1>7. FreshIdle' /\ PruneRemoves'
  BY <1>1, <1>2, <1>5, Counters DEF Framed
<1>8. AddsBuilt' /\ TargetsBegun'
  <2>1. \A r \in Runners : Begun(r) => Begun(r)'
    BY <1>1, <1>2, <1>5 DEF TypeOK, Begun
  <2>2. AddsBuilt'
    BY <1>1, <1>2, <1>5 DEF TaskInv, TypeOK, AddsBuilt, PruneRemoves
  <2>3. TargetsBegun'
    BY <1>1, <1>2, <1>3, <1>4, <1>5, <2>1 DEF TaskInv, TypeOK, TargetsBegun
  <2> QED
    BY <2>2, <2>3
<1>9. ClosedBegun' /\ ClosingClosed'
  BY <1>1, <1>2, <1>3, <1>4, <1>5 DEF TaskInv, TypeOK, ClosedBegun, ClosingClosed, Begun
<1>10. InitializedDone' /\ RunningInitialized'
  BY <1>1, <1>2, <1>4, <1>5 DEF TaskInv, TypeOK, InitializedDone, RunningInitialized
<1>11. PendingOwned'
  BY <1>1, <1>2, <1>4, <1>5 DEF TaskInv, TypeOK, PendingOwned, RegistryMap
<1> QED
  BY <1>6, <1>7, <1>8, <1>9, <1>10, <1>11 DEF TaskInv

\* The start of add_model_runner keeps the invariant.
LEMMA AddStartTaskInv ==
  ASSUME TaskInv, NEW t \in TaskId, AddStart(t) PROVE TaskInv'
<1>1. config[t] \in Updates /\ t \in Runners
  BY Names DEF TaskInv, PruneRemoves, AddsBuilt, AddStart
<1>2. config[t].model \in Models
  BY <1>1, ClusterAssumption
<1> QED
  BY <1>1, <1>2, AddTaskInv
     DEF AddStart, TaskInv, TypeOK, Framed, RegistryMap, Channels

\* The steps of remove_model_runner up to its await, and after it.
LEMMA RemoveTaskInv ==
  ASSUME TaskInv, Framed, UNCHANGED <<config, reported>>, NEW t \in TaskId,
         pc[t] \in Holding \ Closing,
         NEW at \in {"closing", "reconnecting"},
         at = "reconnecting" => pc[t] = "reconnect" /\ t \notin PruneTask,
         Remove(t, target[t], at)
  PROVE  TaskInv'
<1> USE Names DEF PCs, Scheduled, Starting, Closing, Ended, Holding, Framed
<1> DEFINE r == target[t]
<1>1. TypeOK /\ r \in Runners /\ Begun(r)
  BY DEF TaskInv, TargetsBegun
<1> HIDE DEF r
<1>2. \E q \in {"closing", "reconnecting", "done"} :
        /\ pc' = [pc EXCEPT ![t] = q]
        /\ q = "reconnecting" => pc[t] = "reconnect" /\ t \notin PruneTask
        /\ q = "done" => target' = [target EXCEPT ![t] = None]
        /\ q # "done" => target' = [target EXCEPT ![t] = r]
  BY DEF Remove, r
<1>3. /\ closed' = closed \cup {r}
      /\ models_run' \in RegistryMap /\ pending' \in RegistryMap /\ channel' \in Channels
      /\ \A n \in Models : models_run'[n] \in {models_run[n], None}
      /\ \A n \in Models : pending'[n] \in {pending[n], None}
  BY <1>1 DEF Remove, Forget, ShutBegin, TypeOK, RegistryMap, Channels, registry, r
<1>4. TypeOK'
  BY <1>1, <1>2, <1>3 DEF TypeOK, RegistryMap, Channels, event
<1>5. FreshIdle' /\ PruneRemoves'
  BY <1>2, Counters DEF Framed
<1>6. AddsBuilt' /\ \A s \in Runners : Begun(s) => Begun(s)'
  BY <1>1, <1>2 DEF TaskInv, TypeOK, AddsBuilt, Begun
<1>7. TargetsBegun'
  BY <1>1, <1>2, <1>6 DEF TaskInv, TypeOK, TargetsBegun
<1>8. ClosedBegun' /\ ClosingClosed'
  BY <1>1, <1>2, <1>3, <1>6 DEF TaskInv, TypeOK, ClosedBegun, ClosingClosed
<1>9. InitializedDone' /\ RunningInitialized' /\ PendingOwned'
  BY <1>1, <1>2, <1>3
     DEF TaskInv, TypeOK, InitializedDone, RunningInitialized, PendingOwned
<1> QED
  BY <1>4, <1>5, <1>6, <1>7, <1>8, <1>9 DEF TaskInv

\* The deletions that end remove_model_runner keep the invariant.
LEMMA RemoveEndTaskInv ==
  ASSUME TaskInv, NEW t \in TaskId, RemoveEnd(t) PROVE TaskInv'
<1> USE Names DEF PCs, Scheduled, Starting, Closing, Ended, Holding
<1>1. /\ TypeOK /\ target[t] \in Runners
      /\ pc' = [pc EXCEPT ![t] = "done"] /\ target' = [target EXCEPT ![t] = None]
      /\ UNCHANGED <<config, closed, initialized>>
  BY DEF RemoveEnd, TaskInv, TargetsBegun
<1>2. /\ models_run' \in RegistryMap /\ pending' \in RegistryMap /\ channel' \in Channels
      /\ \A n \in Models : models_run'[n] \in {models_run[n], None}
      /\ \A n \in Models : pending'[n] \in {pending[n], None}
  BY <1>1 DEF RemoveEnd, Forget, ShutEnd, TypeOK, RegistryMap, Channels
<1>3. TypeOK'
  BY <1>1, <1>2 DEF TypeOK, RegistryMap, Channels, RemoveEnd, event
<1>4. FreshIdle' /\ PruneRemoves'
  BY <1>1, Counters DEF RemoveEnd, Framed
<1>5. AddsBuilt' /\ \A s \in Runners : Begun(s) => Begun(s)'
  BY <1>1 DEF TaskInv, TypeOK, AddsBuilt, Begun
<1>6. TargetsBegun' /\ ClosedBegun' /\ ClosingClosed'
  BY <1>1, <1>5 DEF TaskInv, TypeOK, TargetsBegun, ClosedBegun, ClosingClosed
<1>7. InitializedDone' /\ RunningInitialized' /\ PendingOwned'
  BY <1>1, <1>2
     DEF RemoveEnd, TaskInv, TypeOK, InitializedDone, RunningInitialized, PendingOwned
<1> QED
  BY <1>3, <1>4, <1>5, <1>6, <1>7 DEF TaskInv

\* So does add_model_runner once the runner it replaces is closed,
LEMMA ReplaceEndTaskInv ==
  ASSUME TaskInv, NEW t \in TaskId, ReplaceEnd(t) PROVE TaskInv'
<1> USE Names DEF PCs, Scheduled, Starting, Closing, Ended, Holding
<1> DEFINE m == config[t].model
<1>1. TypeOK /\ t \in Runners /\ config[t] \in Updates /\ target[t] \in Runners
  BY DEF ReplaceEnd, TaskInv, PruneRemoves, AddsBuilt, TargetsBegun
<1>2. m \in Models
  BY <1>1, ClusterAssumption
<1> HIDE DEF m
<1>3. \E q \in Starting : pc' = [pc EXCEPT ![t] = q]
  BY DEF ReplaceEnd, BeginInit
<1>4. /\ target' = [target EXCEPT ![t] = None]
      /\ UNCHANGED <<config, closed, initialized, reported>> /\ Framed
  BY DEF ReplaceEnd, BeginInit, Framed
<1>5. /\ models_run' \in RegistryMap /\ pending' \in RegistryMap /\ channel' \in Channels
      /\ \A n \in Models : models_run'[n] \in {models_run[n], None}
      /\ \A n \in Models : (pending'[n] = t /\ n = m) \/ pending'[n] \in {pending[n], None}
  BY <1>1, <1>2 DEF ReplaceEnd, BeginInit, Forget, ShutEnd, TypeOK, RegistryMap,
     Channels, m
<1>6. TypeOK'
  BY <1>1, <1>3, <1>4, <1>5 DEF TypeOK, RegistryMap, Channels, Framed, event
<1>7. FreshIdle' /\ PruneRemoves'
  BY <1>1, <1>3, <1>4, Counters DEF ReplaceEnd, Framed
<1>8. AddsBuilt' /\ \A s \in Runners : Begun(s) => Begun(s)'
  BY <1>1, <1>3, <1>4 DEF TaskInv, TypeOK, AddsBuilt, Begun
<1>9. TargetsBegun' /\ ClosedBegun' /\ ClosingClosed'
  BY <1>1, <1>3, <1>4, <1>8 DEF TaskInv, TypeOK, TargetsBegun, ClosedBegun, ClosingClosed
<1>10. InitializedDone' /\ RunningInitialized' /\ PendingOwned'
  BY <1>1, <1>3, <1>4, <1>5 DEF ReplaceEnd, TaskInv, TypeOK, InitializedDone,
     RunningInitialized, PendingOwned, m
<1> QED
  BY <1>6, <1>7, <1>8, <1>9, <1>10 DEF TaskInv

\* and reconnect_model_runner, which builds the new runner at that point.
LEMMA ReconnectOldClosedTaskInv ==
  ASSUME TaskInv, NEW t \in TaskId, ReconnectOldClosed(t) PROVE TaskInv'
<1> DEFINE old == target[t]
<1>1. /\ TypeOK /\ t \in Runners /\ old \in Runners /\ old # t
      /\ config[old] \in Updates /\ config[old].model \in Models
  BY Names, ClusterAssumption DEF ReconnectOldClosed, TaskInv, PruneRemoves,
     TargetsBegun, Begun, Holding, Closing
<1>2. /\ config' = [config EXCEPT ![t] = config[old]]
      /\ Add(t, config[old].model, Forget(models_run, old), Forget(pending, old),
             ShutEnd(channel, old))
      /\ pc[t] = "reconnecting" /\ Framed /\ UNCHANGED reported
  BY DEF ReconnectOldClosed, Framed
<1>3. /\ Forget(models_run, old) \in RegistryMap
      /\ Forget(pending, old) \in RegistryMap
      /\ ShutEnd(channel, old) \in Channels
      /\ \A n \in Models : Forget(models_run, old)[n] \in {models_run[n], None}
      /\ \A n \in Models : Forget(pending, old)[n] \in {pending[n], None}
  BY <1>1 DEF Forget, ShutEnd, TypeOK, RegistryMap, Channels
<1>4. /\ config' \in [Runners -> Updates \cup {None}]
      /\ \A r \in Runners \ {t} : config'[r] = config[r]
      /\ config'[t] \in Updates /\ config'[t].model = config[old].model
  BY <1>1, <1>2 DEF TypeOK
<1> HIDE DEF old
<1> QED
  BY <1>1, <1>2, <1>3, <1>4, AddTaskInv

\* process_failure sends its report for a runner that has begun.
LEMMA FailStartTaskInv ==
  ASSUME TaskInv, NEW t \in TaskId, FailStart(t) PROVE TaskInv'
<1> USE Names DEF PCs, Scheduled, Starting, Closing, Ended, Holding
<1>1. TypeOK /\ target[t] \in Runners /\ Begun(target[t]) /\ t \notin PruneTask
  BY DEF TaskInv, TargetsBegun, PruneRemoves, FailStart
<1>2. \E q \in {"sending", "done"} : pc' = [pc EXCEPT ![t] = q]
  BY DEF FailStart, Fail
<1>3. TypeOK'
  BY <1>1 DEF FailStart, Fail, TypeOK, registry, event
<1>4. FreshIdle' /\ PruneRemoves'
  BY <1>1, <1>2, Counters DEF FailStart, Framed
<1>5. \A s \in Runners : Begun(s) => Begun(s)'
  BY <1>1, <1>2 DEF FailStart, TypeOK, Begun
<1>6. AddsBuilt' /\ TargetsBegun' /\ ClosedBegun' /\ ClosingClosed'
  BY <1>1, <1>5 DEF FailStart, Fail, TaskInv, TypeOK, AddsBuilt, TargetsBegun,
     ClosedBegun, ClosingClosed
<1>7. InitializedDone' /\ RunningInitialized' /\ PendingOwned'
  BY <1>1, <1>2 DEF FailStart, TaskInv, TypeOK, InitializedDone, RunningInitialized,
     PendingOwned, registry
<1> QED
  BY <1>3, <1>4, <1>6, <1>7 DEF TaskInv

\* The steps of init(): the runner is the task's own, and if init() is over it is
\* no longer pending.
LEMMA DialTaskInv ==
  ASSUME TaskInv, NEW t \in TaskId, Dial(t) PROVE TaskInv'
<1> USE Names DEF PCs, Scheduled, Starting, Closing, Ended, Holding
<1>1. TypeOK /\ t \in Runners /\ config[t] \in Updates /\ config[t].model \in Models
  BY ClusterAssumption DEF TaskInv, PruneRemoves, AddsBuilt, Dial
<1>2. \E q \in {"init"} : pc' = [pc EXCEPT ![t] = q]
  BY DEF Dial
<1>3. TypeOK'
  BY <1>1 DEF Dial, registry, TypeOK, event
<1>4. FreshIdle' /\ PruneRemoves'
  BY <1>1, <1>2, Counters DEF Dial, Framed
<1>5. \A s \in Runners : Begun(s) => Begun(s)'
  BY <1>1, <1>2 DEF Dial, TypeOK, Begun
<1>6. AddsBuilt' /\ TargetsBegun' /\ ClosedBegun' /\ ClosingClosed'
  BY <1>1, <1>2, <1>5 DEF Dial, TaskInv, TypeOK, AddsBuilt,
     TargetsBegun, ClosedBegun, ClosingClosed
<1>7. InitializedDone' /\ RunningInitialized' /\ PendingOwned'
  BY <1>1, <1>2 DEF Dial, registry, TaskInv, TypeOK,
     InitializedDone, RunningInitialized, PendingOwned
<1> QED
  BY <1>3, <1>4, <1>6, <1>7 DEF TaskInv

\* A new attempt of init() keeps the invariant.
LEMMA RetryTaskInv ==
  ASSUME TaskInv, NEW t \in TaskId, Retry(t) PROVE TaskInv'
<1> USE Names DEF PCs, Scheduled, Starting, Closing, Ended, Holding
<1>1. TypeOK /\ t \in Runners /\ config[t] \in Updates /\ config[t].model \in Models
  BY ClusterAssumption DEF TaskInv, PruneRemoves, AddsBuilt, Retry
<1>2. \E q \in {"probe"} : pc' = [pc EXCEPT ![t] = q]
  BY DEF Retry
<1>3. TypeOK'
  BY <1>1 DEF Retry, registry, TypeOK, event
<1>4. FreshIdle' /\ PruneRemoves'
  BY <1>1, <1>2, Counters DEF Retry, Framed
<1>5. \A s \in Runners : Begun(s) => Begun(s)'
  BY <1>1, <1>2 DEF Retry, TypeOK, Begun
<1>6. AddsBuilt' /\ TargetsBegun' /\ ClosedBegun' /\ ClosingClosed'
  BY <1>1, <1>2, <1>5 DEF Retry, TaskInv, TypeOK, AddsBuilt,
     TargetsBegun, ClosedBegun, ClosingClosed
<1>7. InitializedDone' /\ RunningInitialized' /\ PendingOwned'
  BY <1>1, <1>2 DEF Retry, registry, TaskInv, TypeOK,
     InitializedDone, RunningInitialized, PendingOwned
<1> QED
  BY <1>3, <1>4, <1>6, <1>7 DEF TaskInv

\* The success of init(), which registers the runner, keeps the invariant.
LEMMA InitOkTaskInv ==
  ASSUME TaskInv, NEW t \in TaskId, InitOk(t) PROVE TaskInv'
<1> USE Names DEF PCs, Scheduled, Starting, Closing, Ended, Holding
<1>1. TypeOK /\ t \in Runners /\ config[t] \in Updates /\ config[t].model \in Models
  BY ClusterAssumption DEF TaskInv, PruneRemoves, AddsBuilt, InitOk
<1>2. \E q \in {"done"} : pc' = [pc EXCEPT ![t] = q]
  BY DEF InitOk
<1>3. TypeOK'
  BY <1>1 DEF InitOk, InitLeft, Forget, TypeOK, event
<1>4. FreshIdle' /\ PruneRemoves'
  BY <1>1, <1>2, Counters DEF InitOk
<1>5. \A s \in Runners : Begun(s) => Begun(s)'
  BY <1>1, <1>2 DEF InitOk, TypeOK, Begun
<1>6. AddsBuilt' /\ TargetsBegun' /\ ClosedBegun' /\ ClosingClosed'
  BY <1>1, <1>2, <1>5 DEF InitOk, TaskInv, TypeOK, AddsBuilt,
     TargetsBegun, ClosedBegun, ClosingClosed
<1>7. InitializedDone' /\ RunningInitialized' /\ PendingOwned'
  BY <1>1, <1>2 DEF InitOk, InitLeft, Forget, TaskInv, TypeOK,
     InitializedDone, RunningInitialized, PendingOwned
<1> QED
  BY <1>3, <1>4, <1>6, <1>7 DEF TaskInv

\* The end of an init() that was told to stop keeps the invariant.
LEMMA InitAbortedTaskInv ==
  ASSUME TaskInv, NEW t \in TaskId, InitAborted(t) PROVE TaskInv'
<1> USE Names DEF PCs, Scheduled, Starting, Closing, Ended, Holding
<1>1. TypeOK /\ t \in Runners /\ config[t] \in Updates /\ config[t].model \in Models
  BY ClusterAssumption DEF TaskInv, PruneRemoves, AddsBuilt, InitAborted
<1>2. \E q \in {"done"} : pc' = [pc EXCEPT ![t] = q]
  BY DEF InitAborted
<1>3. TypeOK'
  BY <1>1 DEF InitAborted, InitLeft, Forget, TypeOK, event
<1>4. FreshIdle' /\ PruneRemoves'
  BY <1>1, <1>2, Counters DEF InitAborted, Framed
<1>5. \A s \in Runners : Begun(s) => Begun(s)'
  BY <1>1, <1>2 DEF InitAborted, TypeOK, Begun
<1>6. AddsBuilt' /\ TargetsBegun' /\ ClosedBegun' /\ ClosingClosed'
  BY <1>1, <1>2, <1>5 DEF InitAborted, TaskInv, TypeOK, AddsBuilt,
     TargetsBegun, ClosedBegun, ClosingClosed
<1>7. InitializedDone' /\ RunningInitialized' /\ PendingOwned'
  BY <1>1, <1>2 DEF InitAborted, InitLeft, Forget, TaskInv, TypeOK,
     InitializedDone, RunningInitialized, PendingOwned
<1> QED
  BY <1>3, <1>4, <1>6, <1>7 DEF TaskInv

\* A failed init(), which goes on to process_failure, keeps the invariant.
LEMMA InitFailedTaskInv ==
  ASSUME TaskInv, NEW t \in TaskId, InitFailed(t) PROVE TaskInv'
<1> USE Names DEF PCs, Scheduled, Starting, Closing, Ended, Holding
<1>1. TypeOK /\ t \in Runners /\ config[t] \in Updates /\ config[t].model \in Models
  BY ClusterAssumption DEF TaskInv, PruneRemoves, AddsBuilt, InitFailed
<1>2. \E q \in {"sending", "done"} : pc' = [pc EXCEPT ![t] = q]
  BY DEF InitFailed, Fail
<1>3. TypeOK'
  BY <1>1 DEF InitFailed, Fail, InitLeft, Forget, TypeOK, event
<1>4. FreshIdle' /\ PruneRemoves'
  BY <1>1, <1>2, Counters DEF InitFailed, Framed
<1>5. \A s \in Runners : Begun(s) => Begun(s)'
  BY <1>1, <1>2 DEF InitFailed, TypeOK, Begun
<1>6. AddsBuilt' /\ TargetsBegun' /\ ClosedBegun' /\ ClosingClosed'
  BY <1>1, <1>2, <1>5 DEF InitFailed, Fail, Begun, TaskInv, TypeOK, AddsBuilt,
     TargetsBegun, ClosedBegun, ClosingClosed
<1>7. InitializedDone' /\ RunningInitialized' /\ PendingOwned'
  BY <1>1, <1>2 DEF InitFailed, InitLeft, Forget, TaskInv, TypeOK,
     InitializedDone, RunningInitialized, PendingOwned
<1> QED
  BY <1>3, <1>4, <1>6, <1>7 DEF TaskInv

\* An exception that leaves init() keeps the invariant.
LEMMA InitRaisedTaskInv ==
  ASSUME TaskInv, NEW t \in TaskId, InitRaised(t) PROVE TaskInv'
<1> USE Names DEF PCs, Scheduled, Starting, Closing, Ended, Holding
<1>1. TypeOK /\ t \in Runners /\ config[t] \in Updates /\ config[t].model \in Models
  BY ClusterAssumption DEF TaskInv, PruneRemoves, AddsBuilt, InitRaised
<1>2. \E q \in {"done", "raised", "cancelled"} : pc' = [pc EXCEPT ![t] = q]
  BY DEF InitRaised
<1>3. TypeOK'
  BY <1>1 DEF InitRaised, InitLeft, Forget, TypeOK, event
<1>4. FreshIdle' /\ PruneRemoves'
  BY <1>1, <1>2, Counters DEF InitRaised, Framed
<1>5. \A s \in Runners : Begun(s) => Begun(s)'
  BY <1>1, <1>2 DEF InitRaised, TypeOK, Begun
<1>6. AddsBuilt' /\ TargetsBegun' /\ ClosedBegun' /\ ClosingClosed'
  BY <1>1, <1>2, <1>5 DEF InitRaised, TaskInv, TypeOK, AddsBuilt,
     TargetsBegun, ClosedBegun, ClosingClosed
<1>7. InitializedDone' /\ RunningInitialized' /\ PendingOwned'
  BY <1>1, <1>2 DEF InitRaised, InitLeft, Forget, TaskInv, TypeOK,
     InitializedDone, RunningInitialized, PendingOwned
<1> QED
  BY <1>3, <1>4, <1>6, <1>7 DEF TaskInv

\* A failure or a reconnection scheduled by a call keeps the invariant.
LEMMA SpawnTaskInv ==
  ASSUME TaskInv, NEW r \in Runners, Spawn(r) PROVE TaskInv'
<1> USE Names DEF PCs, Scheduled, Starting, Closing, Ended, Holding
<1>1. PICK t \in Background, call \in {"fail", "reconnect"} :
        /\ pc[t] = "idle"
        /\ pc' = [pc EXCEPT ![t] = call]
        /\ target' = [target EXCEPT ![t] = r]
  BY DEF Spawn
<1>2. TypeOK /\ r \in initialized /\ Begun(r) /\ r # t /\ t \in Runners
  BY <1>1 DEF Spawn, TaskInv, InitializedDone, Begun
<1>3. TypeOK'
  BY <1>1, <1>2 DEF Spawn, TypeOK, registry, event
<1>4. FreshIdle' /\ PruneRemoves'
  BY <1>1, <1>2 DEF Spawn, TaskInv, TypeOK, FreshIdle, PruneRemoves, event
<1>5. AddsBuilt' /\ \A s \in Runners : Begun(s) => Begun(s)'
  BY <1>1, <1>2 DEF Spawn, TaskInv, TypeOK, AddsBuilt, Begun
<1>6. TargetsBegun' /\ ClosedBegun' /\ ClosingClosed'
  BY <1>1, <1>2, <1>5 DEF Spawn, TaskInv, TypeOK, TargetsBegun, ClosedBegun, ClosingClosed
<1>7. InitializedDone' /\ RunningInitialized' /\ PendingOwned'
  BY <1>1, <1>2 DEF Spawn, TaskInv, TypeOK, InitializedDone, RunningInitialized,
     PendingOwned, registry
<1> QED
  BY <1>3, <1>4, <1>5, <1>6, <1>7 DEF TaskInv

\* update_model_runs: the entries' tasks are fresh, a removal holds the runner it
\* found, and new settings are for a new runner or name the same model.
LEMMA ReceiveEventTaskInv ==
  ASSUME TaskInv, NEW type \in {"init", "update"}, NEW data \in Payloads,
         ReceiveEvent(type, data)
  PROVE  TaskInv'
<1> USE Names DEF PCs, Scheduled, Starting, Closing, Ended, Holding
<1> DEFINE n == eventNum + 1
           adding == {<<n, i>> : i \in {j \in 1 .. Len(data) : Adds(data[j])}}
           removing == {<<n, i>> : i \in {j \in 1 .. Len(data) : Removes(data[j])}}
           latest(r) == {i \in 1 .. Len(data) : Refreshes(data[i], r)
                           /\ \A j \in 1 .. Len(data) : Refreshes(data[j], r) => j <= i}
           last(r) == CHOOSE i \in latest(r) : TRUE
<1>1. TypeOK /\ Len(data) \in 0 .. MaxData /\ \A i \in 1 .. Len(data) : data[i] \in Updates
  BY ClusterAssumption DEF TaskInv
<1>2. n \in 1 .. MaxEvents
  BY <1>1, ClusterAssumption DEF ReceiveEvent, TypeOK
<1>3. \A t \in adding \cup removing :
        /\ t \in EntryTask
        /\ t[1] = n /\ t[2] \in 1 .. Len(data)
        /\ pc[t] = "idle"
  <2>1. \A t \in adding \cup removing :
          t \in EntryTask /\ t[1] = n /\ t[2] \in 1 .. Len(data)
    BY <1>1, <1>2, ClusterAssumption, SMT DEF EntryTask
  <2> QED
    BY <1>1, <2>1 DEF TaskInv, FreshIdle, TypeOK
<1>4. /\ eventNum' = n /\ eventType' = type /\ eventData' = data /\ phase' = "updating"
      /\ pc' = [t \in TaskId |-> IF t \in adding THEN "add"
                                ELSE IF t \in removing THEN "remove" ELSE pc[t]]
      /\ target' = [t \in TaskId |-> IF t \in removing THEN Found(data[t[2]])
                                    ELSE target[t]]
      /\ config' = [r \in Runners |-> IF r \in adding THEN data[r[2]]
                                     ELSE IF latest(r) = {} THEN config[r]
                                     ELSE data[last(r)]]
      /\ UNCHANGED <<models_run, pending, closed, channel, initialized, reported>>
  BY DEF ReceiveEvent, registry
<1>5. \A i \in 1 .. Len(data) :
        Found(data[i]) # None => Found(data[i]) \in Runners /\ Begun(Found(data[i]))
  <2> SUFFICES ASSUME NEW i \in 1 .. Len(data), Found(data[i]) # None
               PROVE  Found(data[i]) \in Runners /\ Begun(Found(data[i]))
    OBVIOUS
  <2>1. data[i].model \in Models
    BY <1>1, ClusterAssumption
  <2> QED
    BY <1>1, <2>1 DEF Found, Current, TaskInv, TypeOK, AddsBuilt, InitializedDone,
       RunningInitialized, PendingOwned, Begun
<1>6. \A t \in removing : Found(data[t[2]]) # None
  BY <1>1 DEF Removes
<1>7. \A r \in Runners \ adding :
        \/ config'[r] = config[r]
        \/ /\ config'[r] \in Updates /\ config'[r].model \in Models
           /\ models_run[config'[r].model] = r
  <2> SUFFICES ASSUME NEW r \in Runners \ adding, latest(r) # {}
               PROVE  /\ config'[r] \in Updates /\ config'[r].model \in Models
                      /\ models_run[config'[r].model] = r
    BY <1>4
  <2>1. last(r) \in 1 .. Len(data) /\ Refreshes(data[last(r)], r)
    OBVIOUS
  <2>2. config'[r] = data[last(r)]
    BY <1>4
  <2> QED
    BY <1>1, <2>1, <2>2, ClusterAssumption DEF Refreshes
<1>8. \A r \in Runners \cap adding : config'[r] \in Updates
  BY <1>1, <1>3, <1>4
<1> HIDE DEF n, adding, removing, latest, last
<1>9. \A r \in Runners : Begun(r) =>
        /\ Begun(r)' /\ pc'[r] = pc[r] /\ config'[r].model = config[r].model
  BY <1>1, <1>3, <1>4, <1>7 DEF TaskInv, TypeOK, Begun, RunningInitialized
<1>10. TypeOK'
  <2>1. config' \in [Runners -> Updates \cup {None}]
    BY <1>1, <1>4, <1>7, <1>8 DEF TypeOK
  <2>2. target' \in [TaskId -> Runners \cup {None}]
    BY <1>1, <1>3, <1>4, <1>5 DEF TypeOK
  <2>3. pc' \in [TaskId -> PCs]
    BY <1>1, <1>4 DEF TypeOK
  <2> QED
    BY <1>1, <1>2, <1>4, <2>1, <2>2, <2>3 DEF TypeOK
<1>11. FreshIdle' /\ PruneRemoves'
  BY <1>1, <1>2, <1>3, <1>4, ClusterAssumption
     DEF TaskInv, TypeOK, FreshIdle, PruneRemoves, n
<1>12. AddsBuilt'
  BY <1>1, <1>3, <1>4, <1>7, <1>8 DEF TaskInv, TypeOK, AddsBuilt, PruneRemoves
<1>13. TargetsBegun'
  <2>1. \A t \in removing \cap TaskId : target'[t] \in Runners /\ Begun(target'[t])
    BY <1>3, <1>4, <1>5, <1>6
  <2>2. \A t \in TaskId \ removing : pc'[t] \in {"add", pc[t]} /\ target'[t] = target[t]
    BY <1>4
  <2> QED
    BY <1>9, <2>1, <2>2 DEF TaskInv, TargetsBegun
<1>14. ClosedBegun' /\ ClosingClosed'
  BY <1>1, <1>3, <1>4, <1>9 DEF TaskInv, TypeOK, ClosedBegun, ClosingClosed
<1>15. InitializedDone' /\ RunningInitialized' /\ PendingOwned'
  <2>1. \A r \in initialized : r \in Runners /\ Begun(r)
    BY DEF TaskInv, TypeOK, InitializedDone, Begun
  <2>2. \A m \in Models : pending[m] # None => pending[m] \in Runners /\ Begun(pending[m])
    BY DEF TaskInv, TypeOK, PendingOwned, AddsBuilt, Begun
  <2>3. InitializedDone'
    BY <1>4, <1>9, <2>1 DEF TaskInv, InitializedDone, Begun
  <2> QED
    BY <1>4, <1>9, <2>1, <2>2, <2>3 DEF TaskInv, RunningInitialized, PendingOwned
<1> QED
  BY <1>10, <1>11, <1>12, <1>13, <1>14, <1>15 DEF TaskInv

\* The handler's own steps: an `init' event prunes models that run, with tasks
\* that were idle.
LEMMA UpdatesDoneTaskInv == ASSUME TaskInv, UpdatesDone PROVE TaskInv'
<1> USE Names DEF PCs, Scheduled, Starting, Closing, Ended, Holding
<1>1. TypeOK /\ UNCHANGED <<models_run, pending, config, closed, channel, initialized,
                         reported, eventNum, eventType, eventData>>
  BY DEF TaskInv, UpdatesDone, registry, event
<1>2. /\ phase' \in {"idle", "pruning"}
      /\ \E prune \in SUBSET PruneTask :
           /\ \A t \in prune : t[1] = eventNum /\ models_run[t[2]] # None /\ pc[t] = "idle"
           /\ pc' = [t \in TaskId |-> IF t \in prune THEN "remove" ELSE pc[t]]
           /\ target' = [t \in TaskId |-> IF t \in prune THEN models_run[t[2]]
                                         ELSE target[t]]
  <2>1. CASE eventType = "update" /\ phase' = "idle" /\ UNCHANGED <<pc, target>>
    <3> DEFINE none == {}
    <3>1. none \in SUBSET PruneTask /\ \A t \in TaskId : t \notin none
      OBVIOUS
    <3>2. /\ pc' = [t \in TaskId |-> IF t \in none THEN "remove" ELSE pc[t]]
          /\ target' = [t \in TaskId |-> IF t \in none THEN models_run[t[2]]
                                        ELSE target[t]]
      BY <1>1, <2>1 DEF TypeOK
    <3> QED
      BY <2>1, <3>1, <3>2
  <2>2. CASE eventType = "init"
    <3> DEFINE absent == {m \in Models : /\ models_run[m] # None
                                        /\ \A i \in 1 .. Len(eventData) :
                                             eventData[i].model # m}
               prune == {t \in ThisEvent(PruneTask) : t[2] \in absent}
    <3>1. prune \in SUBSET PruneTask /\ \A t \in prune : t[1] = eventNum
      BY DEF ThisEvent
    <3>2. phase = "updating" /\ phase' = "pruning"
      BY <2>2 DEF UpdatesDone
    <3>3. \A t \in prune : models_run[t[2]] # None /\ pc[t] = "idle"
      BY <3>1, <3>2 DEF TaskInv, FreshIdle
    <3>4. /\ pc' = [t \in TaskId |-> IF t \in prune THEN "remove" ELSE pc[t]]
          /\ target' = [t \in TaskId |-> IF t \in prune THEN models_run[t[2]]
                                        ELSE target[t]]
      BY <2>2 DEF UpdatesDone
    <3> HIDE DEF prune
    <3> QED
      BY <3>1, <3>2, <3>3, <3>4
  <2> QED
    BY <2>1, <2>2 DEF UpdatesDone
<1>3. PICK prune \in SUBSET PruneTask :
        /\ \A t \in prune : t[1] = eventNum /\ models_run[t[2]] # None /\ pc[t] = "idle"
        /\ pc' = [t \in TaskId |-> IF t \in prune THEN "remove" ELSE pc[t]]
        /\ target' = [t \in TaskId |-> IF t \in prune THEN models_run[t[2]] ELSE target[t]]
  BY <1>2
<1>4. \A r \in Runners : pc'[r] = pc[r] /\ (Begun(r) => Begun(r)')
  BY <1>1, <1>3 DEF Begun
<1>5. TypeOK'
  <2>1. target' \in [TaskId -> Runners \cup {None}]
    BY <1>1, <1>3 DEF TypeOK
  <2> QED
    BY <1>1, <1>2, <1>3, <2>1 DEF TypeOK
<1>6. FreshIdle' /\ PruneRemoves'
  BY <1>1, <1>2, <1>3 DEF TaskInv, TypeOK, FreshIdle, PruneRemoves
<1>7. AddsBuilt' /\ ClosedBegun' /\ ClosingClosed'
  BY <1>1, <1>3, <1>4 DEF TaskInv, TypeOK, AddsBuilt, ClosedBegun, ClosingClosed
<1>8. TargetsBegun'
  <2>1. \A m \in Models : models_run[m] # None => models_run[m] \in Runners /\ Begun(models_run[m])
    BY <1>1 DEF TaskInv, TypeOK, RunningInitialized, InitializedDone, Begun
  <2>2. \A t \in prune : target'[t] \in Runners /\ Begun(target'[t])
    BY <1>3, <2>1
  <2>3. \A t \in TaskId \ prune : pc'[t] = pc[t] /\ target'[t] = target[t]
    BY <1>3
  <2> QED
    BY <1>4, <2>2, <2>3 DEF TaskInv, TargetsBegun
<1>9. InitializedDone' /\ RunningInitialized' /\ PendingOwned'
  BY <1>1, <1>4 DEF TaskInv, TypeOK, InitializedDone, RunningInitialized, PendingOwned
<1> QED
  BY <1>5, <1>6, <1>7, <1>8, <1>9 DEF TaskInv

\* The other steps of the handler move `phase' alone.
LEMMA HandlerTaskInv ==
  ASSUME TaskInv, PruneDone \/ HandlerLeft \/ UNCHANGED vars PROVE TaskInv'
<1>1. /\ UNCHANGED <<models_run, pending, config, closed, channel, initialized, reported,
                     pc, target, eventNum, eventType, eventData>>
      /\ phase' \in {phase, "idle", "stopped"}
  BY DEF PruneDone, HandlerLeft, registry, event, vars
<1> QED
  BY <1>1 DEF TaskInv, TypeOK, FreshIdle, PruneRemoves, AddsBuilt, TargetsBegun,
     ClosedBegun, InitializedDone, ClosingClosed, RunningInitialized, PendingOwned, Begun

\* TaskInv is inductive: every step of handle_event, of the tasks and of their
\* runners keeps it.
THEOREM NextTaskInv == TaskInv /\ [Next]_vars => TaskInv'
<1> SUFFICES ASSUME TaskInv, [Next]_vars PROVE TaskInv'
  OBVIOUS
<1>1. ASSUME NEW type \in {"init", "update"}, NEW data \in Payloads, ReceiveEvent(type, data)
      PROVE  TaskInv'
  BY <1>1, ReceiveEventTaskInv
<1>2. CASE Handler \/ UNCHANGED vars
  BY <1>2, UpdatesDoneTaskInv, HandlerTaskInv DEF Handler
<1>3. ASSUME NEW t \in TaskId, Work(t) PROVE TaskInv'
  <2>1. CASE AddStart(t)
    BY <2>1, AddStartTaskInv
  <2>2. CASE RemoveStart(t) \/ SendDone(t)
    BY <2>2, RemoveTaskInv DEF RemoveStart, SendDone, Framed, Holding, Closing
  <2>3. CASE FailStart(t)
    BY <2>3, FailStartTaskInv
  <2>4. CASE ReconnectStart(t)
    <3>1. t \notin PruneTask
      BY <2>4 DEF TaskInv, PruneRemoves, ReconnectStart
    <3> QED
      BY <2>4, <3>1, RemoveTaskInv DEF ReconnectStart, Framed, Holding, Closing
  <2>5. CASE RemoveEnd(t)
    BY <2>5, RemoveEndTaskInv
  <2>6. CASE ReplaceEnd(t)
    BY <2>6, ReplaceEndTaskInv
  <2>7. CASE ReconnectOldClosed(t)
    BY <2>7, ReconnectOldClosedTaskInv
  <2>8. CASE Dial(t)
    BY <2>8, DialTaskInv
  <2> QED
    BY <1>3, <2>1, <2>2, <2>3, <2>4, <2>5, <2>6, <2>7, <2>8 DEF Work
<1>4. ASSUME NEW t \in Runners, Retry(t) \/ InitReturns(t) PROVE TaskInv'
  BY <1>4, Names, RetryTaskInv, InitOkTaskInv, InitAbortedTaskInv, InitFailedTaskInv,
     InitRaisedTaskInv DEF InitReturns
<1>5. ASSUME NEW r \in Runners, Spawn(r) PROVE TaskInv'
  BY <1>5, SpawnTaskInv
<1> QED
  BY <1>1, <1>2, <1>3, <1>4, <1>5 DEF Next

\* What the tasks of the cluster can meet, in every behaviour.
THEOREM TaskInvariant == Spec => []TaskInv
<1>1. Init => TaskInv
  BY InitTaskInv
<1>2. TaskInv /\ [Next]_vars => TaskInv'
  BY NextTaskInv
<1> QED
  BY <1>1, <1>2, PTL DEF Spec

\* The registry, the runners and the tasks keep their types.
THEOREM TypeCorrect == Spec => []TypeOK
<1>1. TaskInv => TypeOK
  BY DEF TaskInv
<1> QED
  BY <1>1, TaskInvariant, PTL

\* A pending entry always is the runner of its model whose init() is under way,
\* whatever failures, reconnections and events overlap.
THEOREM PendingIsOwned == Spec => []PendingOwned
<1>1. TaskInv => PendingOwned
  BY DEF TaskInv
<1> QED
  BY <1>1, TaskInvariant, PTL

-----------------------------------------------------------------------------
\* One step of the cluster removes a running entry only with a closed runner.
LEMMA StepEvictsClosed ==
  ASSUME TaskInv, Next, NEW n \in Models, models_run[n] # None, models_run'[n] = None
  PROVE  models_run[n] \in closed'
<1> USE Names DEF Scheduled, Starting, Closing, Ended, Holding
<1>1. TypeOK /\ RegistryMap = [Models -> Runners \cup {None}]
  BY DEF TaskInv, RegistryMap
<1>2. PICK t \in TaskId :
        \/ AddStart(t) \/ RemoveStart(t) \/ SendDone(t) \/ ReconnectStart(t)
        \/ RemoveEnd(t) \/ ReplaceEnd(t) \/ ReconnectOldClosed(t)
        \/ t \in Runners /\ InitOk(t)
  BY DEF Next, ReceiveEvent, Handler, UpdatesDone, PruneDone, HandlerLeft, Work,
     FailStart, Dial, Retry, InitReturns, InitAborted, InitFailed, InitRaised, Spawn,
     registry
<1>3. CASE AddStart(t)
  <2>1. t \in Runners /\ config[t].model \in Models
    BY <1>3, ClusterAssumption DEF AddStart, TaskInv, PruneRemoves, AddsBuilt
  <2>2. models_run \in RegistryMap /\ pending \in RegistryMap /\ channel \in Channels
    BY <1>1 DEF TypeOK, Channels
  <2>3. Add(t, config[t].model, models_run, pending, channel)
    BY <1>3 DEF AddStart
  <2> QED
    BY <1>1, <2>1, <2>2, <2>3, AddEffect
<1>4. CASE RemoveStart(t) \/ SendDone(t) \/ ReconnectStart(t)
  BY <1>1, <1>4 DEF RemoveStart, SendDone, ReconnectStart, Remove, Forget, registry
<1>5. CASE RemoveEnd(t) \/ ReplaceEnd(t)
  <2>1. target[t] \in closed /\ closed' = closed /\ models_run' = Forget(models_run, target[t])
    BY <1>5 DEF RemoveEnd, ReplaceEnd, TaskInv, ClosingClosed
  <2> QED
    BY <2>1 DEF Forget
<1>6. CASE ReconnectOldClosed(t)
  <2> DEFINE old == target[t]
  <2>1. /\ t \in Runners /\ old \in Runners /\ old \in closed
        /\ config[old].model \in Models
    BY <1>6, ClusterAssumption DEF ReconnectOldClosed, TaskInv, PruneRemoves,
       TargetsBegun, Begun, ClosingClosed
  <2>2. Add(t, config[old].model, Forget(models_run, old), Forget(pending, old),
            ShutEnd(channel, old))
    BY <1>6 DEF ReconnectOldClosed
  <2>3. /\ Forget(models_run, old) \in RegistryMap /\ Forget(pending, old) \in RegistryMap
        /\ ShutEnd(channel, old) \in Channels
        /\ Forget(models_run, old)[n] = IF models_run[n] = old THEN None ELSE models_run[n]
    BY <1>1, <2>1 DEF Forget, ShutEnd, TypeOK, RegistryMap, Channels
  <2> HIDE DEF old
  <2> QED
    BY <1>1, <2>1, <2>2, <2>3, AddEffect
<1>7. CASE t \in Runners /\ InitOk(t)
  BY <1>1, <1>7 DEF InitOk, TypeOK
<1> QED
  BY <1>2, <1>3, <1>4, <1>5, <1>6, <1>7

\* No task of another runner of the model, however late, empties the running entry
\* of a live one.
THEOREM EvictionsClosed == Spec => EvictedOnlyWhenClosed
<1>1. TaskInv /\ [Next]_vars =>
        [\A m \in Models : models_run[m] # None /\ models_run'[m] = None =>
           models_run[m] \in closed']_vars
  BY StepEvictsClosed
<1> QED
  BY <1>1, TaskInvariant, PTL DEF Spec, EvictedOnlyWhenClosed

-----------------------------------------------------------------------------
\* Another task's step does not take its closer away from a runner.
LEMMA TendedKept ==
  ASSUME TypeOK, NEW t \in TaskId, NEW r \in Runners, Tended(r),
         pc[t] \in Closing => target[t] # r,
         \A s \in TaskId \ {t} : pc'[s] = pc[s] /\ target'[s] = target[s]
  PROVE  Tended(r)'
BY DEF Tended

\* add_model_runner keeps CloseInv: a runner it closes is one it waits for.
LEMMA AddCloseInv ==
  ASSUME ~Secure, TaskInv, CloseInv,
         NEW t \in Runners, pc[t] \in {"add", "reconnecting"},
         NEW m \in Models, NEW run \in RegistryMap, NEW pend \in RegistryMap,
         \A n \in Models : run[n] \in {models_run[n], None},
         \A n \in Models : pend[n] \in {pending[n], None},
         NEW ch \in Channels, \A r \in Runners : ch[r] = channel[r] \/ ch[r] = "shut",
         pc[t] = "reconnecting" =>
           /\ ch[target[t]] # "closing"
           /\ \A n \in Models : run[n] # target[t] /\ pend[n] # target[t],
         Add(t, m, run, pend, ch)
  PROVE  CloseInv'
<1> DEFINE c == Current(run, pend, m)
<1> USE Names DEF PCs, Scheduled, Starting, Closing, Ended, Holding
<1>1. TypeOK /\ t \notin closed
  BY DEF TaskInv, ClosedBegun, Begun
<1>2. c # t
  BY <1>1 DEF Current, RegistryMap, TaskInv, TypeOK, InitializedDone,
     RunningInitialized, PendingOwned
<1> HIDE DEF c
<1>3. /\ c \in Runners \cup {None} /\ closed' = closed \cup ({c} \ {None})
      /\ \A n \in Models : models_run'[n] \in {run[n], None}
  BY <1>1, AddEffect DEF c
<1>4. \A s \in TaskId \ {t} : pc'[s] = pc[s] /\ target'[s] = target[s]
  <2>1. \E q \in PCs : pc' = [pc EXCEPT ![t] = q]
    BY <1>1, AddEffect
  <2>2. \E r \in Runners \cup {None} : target' = [target EXCEPT ![t] = r]
    BY <1>1, AddEffect
  <2> QED
    BY <1>1, <2>1, <2>2 DEF TypeOK
<1>5. \A r \in Runners : Tended(r) =>
        Tended(r)' \/ (pc[t] = "reconnecting" /\ target[t] = r)
  BY <1>1, <1>4, TendedKept
<1>6. CASE /\ pc' = [pc EXCEPT ![t] = "init"] /\ channel' = [ch EXCEPT ![t] = "open"]
           /\ \A n \in Models : (pending'[n] = t /\ n = m) \/ pending'[n] \in {pend[n], None}
           /\ c # None => ch[c] = "none" /\ \A n \in Models :
                            models_run'[n] # c /\ (pending'[n] # c \/ c = t)
  <2>1. NeverProbes' /\ ClosedNotOpen'
    BY <1>1, <1>2, <1>3, <1>6 DEF CloseInv, NeverProbes, ClosedNotOpen, TypeOK, Channels
  <2>2. ShuttingTended'
    BY <1>1, <1>5, <1>6 DEF CloseInv, ShuttingTended, TypeOK, Channels
  <2>3. ClosedRunnerBeingRemoved'
    BY <1>1, <1>2, <1>3, <1>5, <1>6 DEF CloseInv, ClosedRunnerBeingRemoved, Registered,
       TypeOK, RegistryMap
  <2> QED
    BY <2>1, <2>2, <2>3 DEF CloseInv
<1>7. CASE /\ pc' = [pc EXCEPT ![t] = "replacing"] /\ target' = [target EXCEPT ![t] = c]
           /\ c # None /\ models_run' = run /\ pending' = pend /\ channel' = ShutBegin(ch, c)
  <2>1. Tended(c)'
    BY <1>1, <1>3, <1>7 DEF Tended, TypeOK
  <2>2. NeverProbes' /\ ClosedNotOpen'
    BY <1>1, <1>3, <1>7 DEF CloseInv, NeverProbes, ClosedNotOpen, TypeOK, Channels, ShutBegin
  <2>3. ShuttingTended'
    BY <1>1, <1>3, <1>5, <1>7, <2>1 DEF CloseInv, ShuttingTended, TypeOK, Channels, ShutBegin
  <2>4. ClosedRunnerBeingRemoved'
    BY <1>1, <1>3, <1>5, <1>7, <2>1 DEF CloseInv, ClosedRunnerBeingRemoved, Registered,
       TypeOK, RegistryMap
  <2> QED
    BY <2>2, <2>3, <2>4 DEF CloseInv
<1> QED
  BY <1>1, <1>6, <1>7, AddEffect DEF c

\* remove_model_runner up to its await keeps CloseInv.
LEMMA RemoveCloseInv ==
  ASSUME ~Secure, TaskInv, CloseInv, NEW t \in TaskId, pc[t] \in Holding \ Closing,
         NEW at \in {"closing", "reconnecting"}, Remove(t, target[t], at)
  PROVE  CloseInv'
<1> USE Names DEF PCs, Scheduled, Starting, Closing, Ended, Holding
<1>1. PICK r \in Runners : TypeOK /\ target[t] = r
  BY DEF TaskInv, TargetsBegun
<1>2. \A s \in TaskId \ {t} : pc'[s] = pc[s] /\ target'[s] = target[s]
  BY <1>1 DEF Remove, TypeOK
<1>3. closed' = closed \cup {r} /\ \A s \in Runners : Tended(s) => Tended(s)'
  BY <1>1, <1>2, TendedKept DEF Remove
<1>4. CASE /\ channel[r] = "none" /\ UNCHANGED channel
           /\ models_run' = Forget(models_run, r) /\ pending' = Forget(pending, r)
           /\ pc' = [pc EXCEPT ![t] = "done"]
  <2>1. NeverProbes' /\ ClosedNotOpen' /\ ShuttingTended'
    BY <1>1, <1>3, <1>4 DEF CloseInv, NeverProbes, ClosedNotOpen, ShuttingTended, TypeOK
  <2>2. ClosedRunnerBeingRemoved'
    BY <1>1, <1>3, <1>4 DEF CloseInv, ClosedRunnerBeingRemoved, Registered, Forget, TypeOK
  <2> QED
    BY <2>1, <2>2 DEF CloseInv
<1>5. CASE /\ channel' = ShutBegin(channel, r) /\ UNCHANGED registry
           /\ pc' = [pc EXCEPT ![t] = at] /\ target' = [target EXCEPT ![t] = r]
  <2>1. Tended(r)'
    BY <1>1, <1>5 DEF Tended, TypeOK
  <2>2. NeverProbes' /\ ClosedNotOpen' /\ ShuttingTended'
    BY <1>1, <1>3, <1>5, <2>1
       DEF CloseInv, NeverProbes, ClosedNotOpen, ShuttingTended, TypeOK, ShutBegin
  <2>3. ClosedRunnerBeingRemoved'
    BY <1>1, <1>3, <1>5, <2>1
       DEF CloseInv, ClosedRunnerBeingRemoved, Registered, TypeOK, registry
  <2> QED
    BY <2>2, <2>3 DEF CloseInv
<1> QED
  BY <1>1, <1>4, <1>5 DEF Remove

\* The deletions after close() keep CloseInv: the runner they stop waiting for is
\* the one they take out of the registry.
LEMMA RemoveEndCloseInv ==
  ASSUME ~Secure, TaskInv, CloseInv, NEW t \in TaskId, RemoveEnd(t) \/ ReplaceEnd(t)
  PROVE  CloseInv'
<1> USE Names DEF PCs, Scheduled, Starting, Closing, Ended, Holding
<1>1. PICK r \in Runners : TypeOK /\ target[t] = r
  BY DEF TaskInv, TargetsBegun, RemoveEnd, ReplaceEnd
<1>2. /\ \E q \in {"done", "init"} : pc' = [pc EXCEPT ![t] = q]
      /\ target' = [target EXCEPT ![t] = None] /\ closed' = closed
      /\ models_run' = Forget(models_run, r)
  BY <1>1 DEF RemoveEnd, ReplaceEnd, BeginInit
<1>3. \A s \in Runners : Tended(s) => Tended(s)' \/ s = r
  BY <1>1, <1>2, TendedKept DEF TypeOK
<1>4. CASE /\ pending' = Forget(pending, r) /\ channel' = ShutEnd(channel, r)
  <2>1. NeverProbes' /\ ClosedNotOpen' /\ ShuttingTended'
    BY <1>1, <1>2, <1>3, <1>4
       DEF CloseInv, NeverProbes, ClosedNotOpen, ShuttingTended, TypeOK, ShutEnd
  <2>2. ClosedRunnerBeingRemoved'
    BY <1>1, <1>2, <1>3, <1>4
       DEF CloseInv, ClosedRunnerBeingRemoved, Registered, Forget, TypeOK
  <2> QED
    BY <2>1, <2>2 DEF CloseInv
<1>5. CASE ReplaceEnd(t)
  <2>1. /\ t \in Runners /\ t \notin closed
        /\ channel' = [ShutEnd(channel, r) EXCEPT ![t] = "open"]
        /\ pending' = [Forget(pending, r) EXCEPT ![config[t].model] = t]
    BY <1>1, <1>5 DEF ReplaceEnd, BeginInit, TaskInv, PruneRemoves, ClosedBegun, Begun
  <2>2. NeverProbes' /\ ClosedNotOpen' /\ ShuttingTended'
    BY <1>1, <1>2, <1>3, <2>1
       DEF CloseInv, NeverProbes, ClosedNotOpen, ShuttingTended, TypeOK, ShutEnd
  <2>3. ClosedRunnerBeingRemoved'
    BY <1>1, <1>2, <1>3, <2>1
       DEF CloseInv, ClosedRunnerBeingRemoved, Registered, Forget, TypeOK
  <2> QED
    BY <2>2, <2>3 DEF CloseInv
<1> QED
  BY <1>1, <1>4, <1>5 DEF RemoveEnd

\* reconnect_model_runner keeps CloseInv when the old runner is gone.
LEMMA ReconnectOldClosedCloseInv ==
  ASSUME ~Secure, TaskInv, CloseInv, NEW t \in TaskId, ReconnectOldClosed(t)
  PROVE  CloseInv'
<1> DEFINE old == target[t]
           run == Forget(models_run, old)
           pend == Forget(pending, old)
           ch == ShutEnd(channel, old)
<1>1. /\ TypeOK /\ t \in Runners /\ old \in Runners /\ pc[t] = "reconnecting"
      /\ config[old].model \in Models /\ Add(t, config[old].model, run, pend, ch)
  BY Names, ClusterAssumption DEF ReconnectOldClosed, TaskInv, PruneRemoves,
     TargetsBegun, Begun, Holding, Closing
<1>2. /\ run \in RegistryMap /\ pend \in RegistryMap /\ ch \in Channels
      /\ \A n \in Models : run[n] \in {models_run[n], None} /\ run[n] # old
      /\ \A n \in Models : pend[n] \in {pending[n], None} /\ pend[n] # old
      /\ \A r \in Runners : ch[r] = channel[r] \/ ch[r] = "shut"
      /\ ch[old] # "closing"
  BY <1>1, Names DEF Forget, ShutEnd, TypeOK, RegistryMap, Channels
<1> HIDE DEF run, pend, ch
<1> QED
  BY <1>1, <1>2, AddCloseInv

\* A runner whose init() succeeds after it was closed is still being closed: its
\* channel is shutting down, so that the closer's deletions are yet to come.
LEMMA InitOkCloseInv ==
  ASSUME ~Secure, TaskInv, CloseInv, NEW t \in Runners, InitOk(t) PROVE CloseInv'
<1> USE Names DEF PCs, Scheduled, Starting, Closing, Ended, Holding
<1>1. TypeOK /\ pc[t] = "init" /\ UNCHANGED <<closed, channel, target>>
  BY DEF InitOk, TaskInv
<1>2. pc' = [pc EXCEPT ![t] = "done"]
  BY DEF InitOk
<1>3. \A s \in Runners : Tended(s) => Tended(s)'
  BY <1>1, <1>2 DEF Tended, TypeOK
<1>4. t \in closed => Tended(t)
  BY <1>1 DEF InitOk, CloseInv, ClosedNotOpen, ShuttingTended
<1>5. NeverProbes' /\ ClosedNotOpen' /\ ShuttingTended'
  BY <1>1, <1>2, <1>3 DEF CloseInv, NeverProbes, ClosedNotOpen, ShuttingTended, TypeOK
<1>6. ClosedRunnerBeingRemoved'
  <2>1. \A s \in Runners : Registered(s)' => Registered(s) \/ s = t
    BY <1>1 DEF InitOk, InitLeft, Forget, Registered, TypeOK
  <2> QED
    BY <1>1, <1>3, <1>4, <2>1 DEF CloseInv, ClosedRunnerBeingRemoved, TypeOK
<1> QED
  BY <1>5, <1>6 DEF CloseInv

\* Steps that close nothing, open nothing and register nobody.
LEMMA OtherCloseInv ==
  ASSUME ~Secure, TaskInv, CloseInv, UNCHANGED <<closed, channel>>,
         \A m \in Models : models_run'[m] = models_run[m],
         \A m \in Models : pending'[m] \in {pending[m], None},
         \A t \in TaskId : pc'[t] # "probe",
         \A t \in TaskId : pc[t] \in Closing => pc'[t] = pc[t] /\ target'[t] = target[t]
  PROVE  CloseInv'
<1>1. TypeOK /\ \A s \in Runners : Tended(s) => Tended(s)'
  BY DEF Tended, TaskInv
<1>2. NeverProbes' /\ ClosedNotOpen' /\ ShuttingTended'
  BY <1>1 DEF CloseInv, NeverProbes, ClosedNotOpen, ShuttingTended
<1>3. \A s \in Runners : Registered(s)' => Registered(s)
  BY <1>1, Names DEF Registered, TypeOK
<1>4. ClosedRunnerBeingRemoved'
  BY <1>1, <1>3 DEF CloseInv, ClosedRunnerBeingRemoved, TypeOK
<1> QED
  BY <1>2, <1>4 DEF CloseInv

\* CloseInv is inductive relative to TaskInv where runners do not probe TLS.
THEOREM NextCloseInv ==
  ASSUME ~Secure, TaskInv, CloseInv, [Next]_vars PROVE CloseInv'
<1> USE Names DEF PCs, Scheduled, Starting, Closing, Ended, Holding
<1>1. TypeOK /\ \A t \in TaskId : pc[t] # "probe"
  BY DEF TaskInv, CloseInv, NeverProbes
<1>2. ASSUME NEW type \in {"init", "update"}, NEW data \in Payloads, ReceiveEvent(type, data)
      PROVE  CloseInv'
  <2> DEFINE n == eventNum + 1
             removing == {<<n, i>> : i \in {j \in 1 .. Len(data) : Removes(data[j])}}
             adding == {<<n, i>> : i \in {j \in 1 .. Len(data) : Adds(data[j])}}
  <2>1. /\ UNCHANGED <<models_run, pending, closed, channel>>
        /\ pc' = [t \in TaskId |-> IF t \in adding THEN "add"
                                  ELSE IF t \in removing THEN "remove" ELSE pc[t]]
        /\ target' = [t \in TaskId |-> IF t \in removing THEN Found(data[t[2]])
                                      ELSE target[t]]
    BY <1>2 DEF ReceiveEvent, registry
  <2>2. \A t \in TaskId : t \in adding \cup removing => pc[t] = "idle"
    <3>1. \A t \in adding \cup removing : t[1] = n
      OBVIOUS
    <3> QED
      BY <1>1, <3>1 DEF TaskInv, FreshIdle, TypeOK
  <2> HIDE DEF adding, removing, n
  <2> QED
    BY <1>1, <2>1, <2>2, OtherCloseInv
<1>3. CASE UpdatesDone
  <2>1. \A t \in TaskId : \/ pc'[t] = pc[t] /\ target'[t] = target[t]
                          \/ pc[t] = "idle" /\ pc'[t] = "remove"
    BY <1>1, <1>3 DEF UpdatesDone, ThisEvent, TaskInv, FreshIdle, TypeOK
  <2> QED
    BY <1>1, <1>3, <2>1, OtherCloseInv DEF UpdatesDone, registry
<1>4. CASE PruneDone \/ HandlerLeft \/ UNCHANGED vars
  BY <1>1, <1>4, OtherCloseInv DEF PruneDone, HandlerLeft, vars, registry
<1>5. ASSUME NEW t \in TaskId, Work(t) PROVE CloseInv'
  <2>1. CASE AddStart(t)
    <3>1. /\ t \in Runners /\ config[t].model \in Models /\ pc[t] = "add"
          /\ Add(t, config[t].model, models_run, pending, channel)
      BY <2>1, ClusterAssumption DEF AddStart, TaskInv, PruneRemoves, AddsBuilt
    <3>2. models_run \in RegistryMap /\ pending \in RegistryMap /\ channel \in Channels
      BY <1>1 DEF TypeOK, RegistryMap, Channels
    <3> QED
      BY <3>1, <3>2, AddCloseInv
  <2>2. CASE RemoveStart(t) \/ SendDone(t) \/ ReconnectStart(t)
    BY <2>2, RemoveCloseInv DEF RemoveStart, SendDone, ReconnectStart
  <2>3. CASE FailStart(t)
    BY <1>1, <2>3, OtherCloseInv DEF FailStart, Fail, TypeOK, registry
  <2>4. CASE RemoveEnd(t) \/ ReplaceEnd(t)
    BY <2>4, RemoveEndCloseInv
  <2>5. CASE ReconnectOldClosed(t)
    BY <2>5, ReconnectOldClosedCloseInv
  <2>6. CASE Dial(t)
    BY <1>1, <2>6 DEF Dial
  <2> QED
    BY <1>5, <2>1, <2>2, <2>3, <2>4, <2>5, <2>6 DEF Work
<1>6. ASSUME NEW t \in Runners, Retry(t) \/ InitReturns(t) PROVE CloseInv'
  <2>1. CASE InitOk(t)
    BY <2>1, InitOkCloseInv
  <2>2. CASE InitAborted(t) \/ InitFailed(t) \/ InitRaised(t)
    BY <1>1, <2>2, OtherCloseInv
       DEF InitAborted, InitFailed, InitRaised, Fail, InitLeft, Forget, TypeOK
  <2> QED
    BY <1>6, <2>1, <2>2 DEF InitReturns, Retry
<1>7. ASSUME NEW r \in Runners, Spawn(r) PROVE CloseInv'
  BY <1>1, <1>7, OtherCloseInv DEF Spawn, TypeOK, registry
<1> QED
  BY <1>2, <1>3, <1>4, <1>5, <1>6, <1>7 DEF Next, Handler

\* Without TLS probes, no closed runner stays in the registry: as long as it is
\* there, the task that will delete it is waiting at its close().
THEOREM ClosedRunnersLeave ==
  ASSUME ~Secure PROVE Spec => []ClosedRunnerBeingRemoved
<1>1. Init => CloseInv
  BY Names DEF Init, CloseInv, NeverProbes, ClosedNotOpen, ShuttingTended,
     ClosedRunnerBeingRemoved
<1>2. TaskInv /\ CloseInv /\ [Next]_vars => CloseInv'
  BY NextCloseInv
<1>3. CloseInv => ClosedRunnerBeingRemoved
  BY DEF CloseInv
<1> QED
  BY <1>1, <1>2, <1>3, TaskInvariant, PTL DEF Spec

\* A task that waits at a close() has not ended.
LEMMA QuietHasNoZombie == ClosedRunnerBeingRemoved => NoZombie
<1> SUFFICES ASSUME ClosedRunnerBeingRemoved, Quiet, NEW r \in closed, Registered(r)
             PROVE  FALSE
  BY DEF NoZombie
<1>1. PICK t \in TaskId : pc[t] \in Closing
  BY DEF ClosedRunnerBeingRemoved, Tended
<1> QED
  BY <1>1 DEF Quiet, Closing, Ended

\* Without TLS probes no closed runner is left in the registry once all tasks have
\* ended, however many events and calls raced for it: no call is made on one.
THEOREM NoZombieInsecure ==
  ASSUME ~Secure PROVE Spec => []NoZombie
BY QuietHasNoZombie, ClosedRunnersLeave, PTL

-----------------------------------------------------------------------------
(***************************************************************************)
(* Reported runners.                                                       *)
(***************************************************************************)
NotReportedAnew ==
  \A m \in Models :
    /\ models_run'[m] \in reported => models_run'[m] = models_run[m]
    /\ pending'[m] \in reported => pending'[m] = pending[m]

\* What the step of one task does: it does not begin what is over, what it reports is
\* its own runner or an initialized one, and what it registers is its own runner,
\* before or at the end of its init().
Reports(t) ==
  /\ pc[t] # "done" /\ pc'[t] # "fail"
  /\ \A s \in TaskId \ {t} : pc'[s] = pc[s] /\ target'[s] = target[s]
  /\ pc[t] \in {"sending", "closing"} => pc'[t] \in {"closing", "done"}
  /\ initialized \subseteq initialized'
  /\ \A r \in reported' \ reported : r \in initialized \/ (r = t /\ pc'[t] = "sending")
  /\ \A m \in Models :
       /\ models_run'[m] \in {models_run[m], None} \/ (models_run'[m] = t /\ pc[t] = "init")
       /\ pending'[m] \in {pending[m], None}
            \/ (pending'[m] = t /\ pc[t] \in {"add", "replacing", "reconnecting"})

\* Such a step keeps ReportInv, and registers no reported runner.
LEMMA ReportsKeeps ==
  ASSUME TaskInv, TypeOK', ReportInv, NEW t \in TaskId, Reports(t)
  PROVE  ReportInv' /\ NotReportedAnew
<1>1. /\ None \notin reported /\ reported \subseteq TaskId /\ reported' \subseteq TaskId
      /\ \A r \in initialized : pc[r] = "done"
  BY Names DEF TaskInv, TypeOK, InitializedDone
<1>2. \A r \in reported' : pc'[r] \in {"sending", "closing", "done"}
  BY <1>1 DEF Reports, ReportInv
<1>3. \A s \in TaskId : pc'[s] = "fail" => target'[s] \in initialized'
  BY DEF Reports, ReportInv
<1>4. NotReportedAnew
  BY <1>1 DEF Reports, ReportInv, NotReportedAnew
<1> QED
  BY <1>2, <1>3, <1>4 DEF ReportInv

LEMMA TaskReports ==
  ASSUME TaskInv, ReportInv, NEW t \in TaskId,
         Work(t) \/ (t \in Runners /\ (Retry(t) \/ InitReturns(t)))
  PROVE  Reports(t)
<1> USE DEF Starting, Closing, Ended
<1>1. TypeOK
  BY DEF TaskInv
<1>2. CASE AddStart(t) \/ ReplaceEnd(t) \/ ReconnectOldClosed(t)
  <2>1. /\ pc[t] \in {"add", "replacing", "reconnecting"} /\ UNCHANGED <<initialized, reported>>
        /\ \E q \in Starting \cup {"replacing"} : pc' = [pc EXCEPT ![t] = q]
        /\ \E r \in Runners \cup {None} : target' = [target EXCEPT ![t] = r]
    <3>1. CASE AddStart(t)
      <4>1. config[t].model \in Models
        BY <3>1, ClusterAssumption DEF AddStart, TaskInv, AddsBuilt
      <4> QED
        BY <1>1, <3>1, <4>1 DEF AddStart, Add, BeginInit, Current, TypeOK
    <3>2. CASE ReplaceEnd(t)
      BY <3>2 DEF ReplaceEnd, BeginInit
    <3>3. CASE ReconnectOldClosed(t)
      <4>1. target[t] \in Runners /\ config[target[t]].model \in Models
        BY <3>3, ClusterAssumption
           DEF ReconnectOldClosed, TaskInv, TargetsBegun, Begun, Holding
      <4> QED
        BY <1>1, <3>3, <4>1 DEF ReconnectOldClosed, Add, BeginInit, Current, Forget, TypeOK
    <3> QED
      BY <1>2, <3>1, <3>2, <3>3
  <2>2. \A m \in Models : /\ models_run'[m] \in {models_run[m], None}
                          /\ pending'[m] \in {pending[m], None, t}
    BY <1>1, <1>2 DEF AddStart, ReplaceEnd, ReconnectOldClosed, Add, BeginInit, Forget, TypeOK
  <2> QED
    BY <1>1, <2>1, <2>2 DEF Reports, TypeOK
<1>3. CASE RemoveStart(t) \/ SendDone(t) \/ ReconnectStart(t) \/ RemoveEnd(t)
  <2>1. /\ pc[t] \in {"remove", "sending", "reconnect", "closing"}
        /\ UNCHANGED <<initialized, reported>>
        /\ \E q \in {"closing", "done", "reconnecting"} :
             /\ pc' = [pc EXCEPT ![t] = q]
             /\ q = "reconnecting" => pc[t] = "reconnect"
        /\ \E r \in {target[t], None} : target' = [target EXCEPT ![t] = r]
    BY <1>3 DEF RemoveStart, SendDone, ReconnectStart, RemoveEnd, Remove
  <2>2. \A m \in Models : /\ models_run'[m] \in {models_run[m], None}
                          /\ pending'[m] \in {pending[m], None}
    BY <1>1, <1>3 DEF RemoveStart, SendDone, ReconnectStart, RemoveEnd, Remove, Forget,
       registry, TypeOK
  <2> QED
    BY <1>1, <2>1, <2>2 DEF Reports, TypeOK
<1>4. CASE FailStart(t)
  BY <1>1, <1>4 DEF FailStart, Fail, Reports, ReportInv, TypeOK, registry
<1>5. CASE Dial(t) \/ Retry(t)
  BY <1>1, <1>5 DEF Dial, Retry, Reports, TypeOK, registry
<1>6. CASE InitOk(t)
  BY <1>1, <1>6 DEF InitOk, InitLeft, Forget, Reports, TypeOK
<1>7. CASE InitFailed(t)
  BY <1>1, <1>7 DEF InitFailed, Fail, InitLeft, Forget, Reports, TypeOK
<1>8. CASE InitAborted(t) \/ InitRaised(t)
  BY <1>1, <1>8 DEF InitAborted, InitRaised, InitLeft, Forget, Reports, TypeOK
<1> QED
  BY <1>2, <1>3, <1>4, <1>5, <1>6, <1>7, <1>8 DEF Work, InitReturns

\* ReportInv is inductive relative to TaskInv, and no step registers a reported runner.
THEOREM NextReportInv ==
  ASSUME TaskInv, ReportInv, [Next]_vars
  PROVE  ReportInv' /\ NotReportedAnew
<1>1. TypeOK /\ TypeOK' /\ reported \subseteq TaskId /\ Runners \subseteq TaskId
  BY NextTaskInv, Names DEF TaskInv, TypeOK
<1>2. ASSUME UNCHANGED <<models_run, pending, initialized, reported>>,
             \A t \in TaskId : \/ pc'[t] = pc[t] /\ target'[t] = target[t]
                               \/ /\ pc[t] = "idle"
                                  /\ pc'[t] = "fail" => target'[t] \in initialized
      PROVE  ReportInv' /\ NotReportedAnew
  BY <1>1, <1>2 DEF ReportInv, NotReportedAnew
<1>3. ASSUME NEW type \in {"init", "update"}, NEW data \in Payloads, ReceiveEvent(type, data)
      PROVE  ReportInv' /\ NotReportedAnew
  <2> DEFINE n == eventNum + 1
             removing == {<<n, i>> : i \in {j \in 1 .. Len(data) : Removes(data[j])}}
             adding == {<<n, i>> : i \in {j \in 1 .. Len(data) : Adds(data[j])}}
  <2>1. /\ UNCHANGED <<models_run, pending, initialized, reported>>
        /\ pc' = [t \in TaskId |-> IF t \in adding THEN "add"
                                  ELSE IF t \in removing THEN "remove" ELSE pc[t]]
        /\ target' = [t \in TaskId |-> IF t \in removing THEN Found(data[t[2]])
                                      ELSE target[t]]
    BY <1>3 DEF ReceiveEvent, registry
  <2>2. \A t \in TaskId : t \in adding \cup removing => pc[t] = "idle"
    <3>1. \A t \in adding \cup removing : t[1] = n
      OBVIOUS
    <3> QED
      BY <1>1, <3>1 DEF TaskInv, FreshIdle, TypeOK
  <2> HIDE DEF adding, removing, n
  <2> QED
    BY <1>2, <2>1, <2>2
<1>4. CASE UpdatesDone
  <2>1. \A t \in TaskId : \/ pc'[t] = pc[t] /\ target'[t] = target[t]
                          \/ pc[t] = "idle" /\ pc'[t] = "remove"
    BY <1>1, <1>4 DEF UpdatesDone, ThisEvent, TaskInv, FreshIdle, TypeOK
  <2> QED
    BY <1>2, <1>4, <2>1 DEF UpdatesDone, registry
<1>5. CASE PruneDone \/ HandlerLeft \/ UNCHANGED vars
  BY <1>2, <1>5 DEF PruneDone, HandlerLeft, vars, registry
<1>6. ASSUME NEW t \in TaskId, Work(t) \/ (t \in Runners /\ (Retry(t) \/ InitReturns(t)))
      PROVE  ReportInv' /\ NotReportedAnew
  BY <1>1, <1>6, TaskReports, ReportsKeeps
<1>7. ASSUME NEW r \in Runners, Spawn(r)  PROVE ReportInv' /\ NotReportedAnew
  BY <1>1, <1>2, <1>7 DEF Spawn, TypeOK, registry
<1> QED
  BY <1>1, <1>3, <1>4, <1>5, <1>6, <1>7 DEF Next, Handler

\* A runner that was reported as failed is never registered again, with and without TLS
\* probes, for any events, calls and exceptions.
THEOREM ReportedAreOut == Spec => ReportedStaysOut
<1>1. Init => ReportInv
  BY DEF Init, ReportInv
<1>2. TaskInv /\ ReportInv /\ [Next]_vars => ReportInv'
  BY NextReportInv
<1>3. TaskInv /\ ReportInv /\ [Next]_vars => [NotReportedAnew]_vars
  BY NextReportInv
<1> QED
  BY <1>1, <1>2, <1>3, TaskInvariant, PTL DEF Spec, ReportedStaysOut, NotReportedAnew
=============================================================================
