--------------------------- MODULE ContractProofs ---------------------------
(***************************************************************************)
(* Proof that each runner of ModelCluster behaves as RunnerContract says,  *)
(* for every value of the constants: the cluster's side of the contract    *)
(* that ModelRunnerProofs shows ModelRunner to implement.                  *)
(***************************************************************************)
EXTENDS ModelClusterProofs

\* A runner is built when its task adds it, and not before.
Unbuilt == \A r \in Runners :
  pc[r] \in {"idle", "reconnect", "reconnecting"} => config[r] = None

Keeps(r) == [Contract(r)!Next]_(Contract(r)!vars)

SamePhase(r) == Phase(r)' = Phase(r)
SameInitialized(r) == (r \in initialized') = (r \in initialized)
SameClosed(r) == (r \in closed') = (r \in closed)

\* A runner of which nothing shows changes keeps the contract,
LEMMA Idles ==
  ASSUME NEW r \in Runners, SamePhase(r), SameInitialized(r), SameClosed(r),
         channel'[r] = channel[r]
  PROVE  Keeps(r)
  BY DEF Keeps, SamePhase, SameInitialized, SameClosed, Contract!vars

\* so does one that is closed after its init() has begun,
LEMMA Closes ==
  ASSUME NEW r \in Runners, Phase(r) # "new", SamePhase(r), SameInitialized(r),
         r \in closed',
         channel'[r] = IF channel[r] = "open" THEN "closing" ELSE channel[r]
  PROVE  Keeps(r)
<1>1. Contract(r)!Close
  BY DEF Contract!Close, SamePhase, SameInitialized
<1> QED
  BY <1>1 DEF Keeps, Contract!Next

\* one whose close() returns,
LEMMA Shuts ==
  ASSUME NEW r \in Runners, SamePhase(r), SameInitialized(r), SameClosed(r),
         channel'[r] = IF channel[r] = "closing" THEN "shut" ELSE channel[r]
  PROVE  Keeps(r)
<1>1. CASE channel[r] = "closing"
  <2>1. Contract(r)!Shut
    BY <1>1 DEF Contract!Shut, SamePhase, SameInitialized, SameClosed
  <2> QED
    BY <2>1 DEF Keeps, Contract!Next
<1>2. CASE channel[r] # "closing"
  BY <1>2, Idles
<1> QED
  BY <1>1, <1>2

\* and one whose init() ends without success.
LEMMA Fails ==
  ASSUME NEW r \in Runners, Phase(r) \in {"probe", "init"}, Phase(r)' = "left",
         SameInitialized(r), SameClosed(r), channel'[r] = channel[r]
  PROVE  Keeps(r)
<1>1. Contract(r)!Fail
  BY DEF Contract!Fail, SameInitialized, SameClosed
<1> QED
  BY <1>1 DEF Keeps, Contract!Next

\* A task that neither leaves nor enters add_model_runner shows nothing of the phase.
LEMMA PhaseKept ==
  ASSUME NEW r \in Runners, config'[r] = None <=> config[r] = None,
         \/ pc'[r] = pc[r]
         \/ /\ pc[r] \notin {"add", "replacing"} \cup Starting
            /\ pc'[r] \notin {"add", "replacing"} \cup Starting
  PROVE  SamePhase(r)
  BY DEF SamePhase, Phase

\* A runner that has begun is built, and its phase is not "new".
LEMMA BegunPhase ==
  ASSUME NEW r \in Runners, Begun(r)
  PROVE  Phase(r) # "new" /\ config[r] # None
  BY ClusterAssumption DEF Begun, Phase, Starting

\* A registered runner has begun.
LEMMA RegisteredBegun ==
  ASSUME TaskInv, NEW n \in Models, NEW r \in Runners, r \in {models_run[n], pending[n]}
  PROVE  Begun(r)
  BY Names DEF TaskInv, TypeOK, AddsBuilt, InitializedDone, RunningInitialized,
     PendingOwned, Begun, Starting

\* add_model_runner, from the registry as it is or with runner `old' just removed,
\* closes the runner it finds and begins init() of its own or waits.
LEMMA AddKeeps ==
  ASSUME TaskInv, NEW t \in Runners, Phase(t) = "new", ~Begun(t),
         NEW m \in Models, NEW run \in RegistryMap, NEW pend \in RegistryMap,
         NEW ch \in Channels, NEW old \in Runners \cup {None},
         \A n \in Models : run[n] \in {models_run[n], None} \ ({old} \ {None}),
         \A n \in Models : pend[n] \in {pending[n], None} \ ({old} \ {None}),
         \A r \in Runners : ch[r] = IF r = old /\ channel[r] = "closing" THEN "shut"
                                    ELSE channel[r],
         old # None => Begun(old),
         config'[t] \in Updates, \A r \in Runners \ {t} : config'[r] = config[r],
         initialized' = initialized,
         Add(t, m, run, pend, ch)
  PROVE  \A r \in Runners : Keeps(r)
<1> DEFINE c == Current(run, pend, m)
<1>1. TypeOK /\ None \notin Runners /\ Runners \subseteq TaskId /\ t # old
  BY Names DEF TaskInv
<1>2. c \in Runners \cup {None} /\ (c # None => Begun(c) /\ c # t /\ c # old)
  <2>1. c \in Runners \cup {None}
    BY DEF Current, RegistryMap
  <2>2. c # None => c \in {models_run[m], pending[m]} /\ c # old
    BY DEF Current, RegistryMap
  <2> QED
    BY <1>1, <2>1, <2>2, RegisteredBegun
<1>3. /\ closed' = closed \cup ({c} \ {None})
      /\ \/ /\ pc' = [pc EXCEPT ![t] = IF Secure THEN "probe" ELSE "init"]
            /\ c # None => ch[c] = "none"
            /\ channel' = IF Secure THEN ch ELSE [ch EXCEPT ![t] = "open"]
         \/ /\ pc' = [pc EXCEPT ![t] = "replacing"]
            /\ c # None
            /\ channel' = ShutBegin(ch, c)
  BY <1>1, AddEffect DEF c
<1> HIDE DEF c
<1>4. \A r \in Runners : SameInitialized(r)
  BY DEF SameInitialized
<1>5. \A r \in Runners \ {t} : pc'[r] = pc[r] /\ config'[r] = config[r]
  BY <1>1, <1>3 DEF TypeOK
<1>6. \A r \in Runners \ {t} : SamePhase(r)
  BY <1>5, PhaseKept
<1>7. \A r \in Runners \ {c} : SameClosed(r)
  BY <1>3 DEF SameClosed
<1>8. ASSUME NEW r \in Runners, r = c  PROVE Keeps(r)
  <2>1. Phase(r) # "new" /\ SamePhase(r) /\ r \in closed' /\ r # t /\ r # old
    BY <1>1, <1>2, <1>3, <1>6, <1>8, BegunPhase
  <2>2. ch[r] = channel[r]
    BY <2>1
  <2>3. channel'[r] = IF channel[r] = "open" THEN "closing" ELSE channel[r]
    BY <1>1, <1>3, <1>8, <2>1, <2>2 DEF ShutBegin, Channels
  <2> QED
    BY <1>4, <2>1, <2>3, Closes
<1>9. ASSUME NEW r \in Runners, r # c, r # t  PROVE Keeps(r)
  <2>1. channel'[r] = ch[r]
    BY <1>1, <1>2, <1>3, <1>9 DEF ShutBegin, Channels
  <2>2. SamePhase(r) /\ SameClosed(r)
    BY <1>6, <1>7, <1>9
  <2>3. CASE r = old
    BY <1>4, <2>1, <2>2, <2>3, Shuts
  <2>4. CASE r # old
    BY <1>4, <2>1, <2>2, <2>4, Idles
  <2> QED
    BY <2>3, <2>4
<1>10. Keeps(t)
  <2>1. SameClosed(t) /\ ch[t] = channel[t] /\ config'[t] # None
    BY <1>1, <1>2, <1>7, ClusterAssumption
  <2>2. CASE /\ pc' = [pc EXCEPT ![t] = IF Secure THEN "probe" ELSE "init"]
             /\ channel' = IF Secure THEN ch ELSE [ch EXCEPT ![t] = "open"]
    <3>1. Phase(t)' = IF Secure THEN "probe" ELSE "init"
      BY <1>1, <2>1, <2>2 DEF Phase, TypeOK, Starting
    <3>2. channel'[t] = IF Secure THEN channel[t] ELSE "open"
      BY <2>1, <2>2 DEF Channels
    <3>3. Contract(t)!Begin
      BY <1>4, <2>1, <3>1, <3>2 DEF Contract!Begin, SameInitialized, SameClosed
    <3> QED
      BY <3>3 DEF Keeps, Contract!Next
  <2>3. CASE pc' = [pc EXCEPT ![t] = "replacing"] /\ channel' = ShutBegin(ch, c) /\ c # None
    <3>1. SamePhase(t)
      BY <1>1, <2>1, <2>3 DEF SamePhase, Phase, TypeOK
    <3>2. channel'[t] = channel[t]
      BY <1>2, <2>1, <2>3 DEF ShutBegin, Channels
    <3> QED
      BY <1>4, <2>1, <3>1, <3>2, Idles
  <2> QED
    BY <1>3, <2>2, <2>3
<1> QED
  BY <1>8, <1>9, <1>10

\* The segments of remove_model_runner, by whichever task runs it.
LEMMA RemoveKeeps ==
  ASSUME TaskInv, NEW t \in TaskId, pc[t] \in Holding \ Closing,
         NEW at \in {"closing", "reconnecting"}, Remove(t, target[t], at),
         UNCHANGED <<config, initialized>>
  PROVE  \A r \in Runners : Keeps(r)
<1>1. TypeOK /\ Runners \subseteq TaskId /\ target[t] \in Runners /\ Begun(target[t])
  BY Names DEF TaskInv, TargetsBegun
<1>2. \E q \in {"done", "closing", "reconnecting"} : pc' = [pc EXCEPT ![t] = q]
  BY DEF Remove
<1>3. closed' = closed \cup {target[t]}
  BY DEF Remove
<1>4. \A r \in Runners : SamePhase(r)
  BY <1>1, <1>2, PhaseKept DEF TypeOK, Holding, Closing, Starting
<1>5. \A r \in Runners : SameInitialized(r)
  BY DEF SameInitialized
<1>6. \A r \in Runners : channel'[r] =
        IF r = target[t] /\ channel[r] = "open" THEN "closing" ELSE channel[r]
  BY <1>1 DEF Remove, ShutBegin, TypeOK
<1>7. ASSUME NEW r \in Runners, r = target[t]  PROVE Keeps(r)
  <2>1. Begun(r)
    BY <1>1, <1>7
  <2>2. Phase(r) # "new" /\ r \in closed'
    BY <1>3, <1>7, <2>1, BegunPhase
  <2> QED
    BY <1>4, <1>5, <1>6, <1>7, <2>2, Closes
<1>8. ASSUME NEW r \in Runners, r # target[t]  PROVE Keeps(r)
  BY <1>3, <1>4, <1>5, <1>6, <1>8, Idles DEF SameClosed
<1> QED
  BY <1>7, <1>8

\* The end of a removal.
LEMMA RemoveEndKeeps ==
  ASSUME TaskInv, NEW t \in TaskId, RemoveEnd(t)
  PROVE  \A r \in Runners : Keeps(r)
<1>1. TypeOK /\ Runners \subseteq TaskId /\ target[t] \in Runners /\ Begun(target[t])
  BY Names DEF TaskInv, TargetsBegun, RemoveEnd, Holding, Closing
<1>2. /\ pc[t] = "closing" /\ pc' = [pc EXCEPT ![t] = "done"]
      /\ channel' = ShutEnd(channel, target[t])
      /\ UNCHANGED <<config, closed, initialized>>
  BY DEF RemoveEnd
<1>3. \A r \in Runners : SamePhase(r) /\ SameInitialized(r) /\ SameClosed(r)
  BY <1>1, <1>2, PhaseKept DEF TypeOK, Starting, SameInitialized, SameClosed
<1>4. \A r \in Runners : channel'[r] =
        IF r = target[t] /\ channel[r] = "closing" THEN "shut" ELSE channel[r]
  BY <1>1, <1>2 DEF ShutEnd, TypeOK
<1>5. ASSUME NEW r \in Runners  PROVE Keeps(r)
  BY <1>3, <1>4, Shuts, Idles
<1> QED
  BY <1>5

\* add_model_runner goes on after the close of the runner it replaces.
LEMMA ReplaceEndKeeps ==
  ASSUME TaskInv, NEW t \in TaskId, ReplaceEnd(t)
  PROVE  \A r \in Runners : Keeps(r)
<1> DEFINE old == target[t]
           ch == ShutEnd(channel, old)
<1>1. /\ TypeOK /\ Runners \subseteq TaskId /\ t \in Runners /\ old \in Runners
      /\ Begun(old) /\ ~Begun(t) /\ config[t] \in Updates /\ old # t
  BY Names DEF TaskInv, TargetsBegun, PruneRemoves, AddsBuilt, ReplaceEnd, Holding,
     Closing, Begun
<1>2. /\ pc[t] = "replacing"
      /\ pc' = [pc EXCEPT ![t] = IF Secure THEN "probe" ELSE "init"]
      /\ channel' = IF Secure THEN ch ELSE [ch EXCEPT ![t] = "open"]
      /\ UNCHANGED <<config, closed, initialized>>
  BY DEF ReplaceEnd, BeginInit
<1>3. \A r \in Runners : SameInitialized(r) /\ SameClosed(r)
  BY <1>2 DEF SameInitialized, SameClosed
<1>4. /\ DOMAIN ch = Runners
      /\ \A r \in Runners : ch[r] = IF r = old /\ channel[r] = "closing" THEN "shut"
                                     ELSE channel[r]
  BY <1>1 DEF ShutEnd, TypeOK
<1> HIDE DEF ch, old
<1>5. ASSUME NEW r \in Runners, r # t  PROVE Keeps(r)
  <2>1. pc'[r] = pc[r] /\ channel'[r] = ch[r]
    BY <1>1, <1>2, <1>4, <1>5 DEF TypeOK
  <2>2. SamePhase(r)
    BY <1>2, <2>1, PhaseKept
  <2> QED
    BY <1>3, <1>4, <2>1, <2>2, Shuts, Idles
<1>6. Keeps(t)
  <2>1. Phase(t) = "new" /\ Phase(t)' = IF Secure THEN "probe" ELSE "init"
    BY <1>1, <1>2, ClusterAssumption DEF Phase, TypeOK, Starting
  <2>2. channel'[t] = IF Secure THEN channel[t] ELSE "open"
    BY <1>1, <1>2, <1>4 DEF ShutEnd, ch, TypeOK
  <2>3. Contract(t)!Begin
    BY <1>1, <1>3, <2>1, <2>2 DEF Contract!Begin, SameInitialized, SameClosed
  <2> QED
    BY <2>3 DEF Keeps, Contract!Next
<1> QED
  BY <1>5, <1>6

\* The two segments that run add_model_runner from its start.
LEMMA AddingKeeps ==
  ASSUME TaskInv, Unbuilt, NEW t \in TaskId, AddStart(t) \/ ReconnectOldClosed(t)
  PROVE  \A r \in Runners : Keeps(r)
<1>1. TypeOK /\ t \in Runners /\ Phase(t) = "new" /\ ~Begun(t) /\ None \notin Runners
  BY Names DEF TaskInv, PruneRemoves, AddStart, ReconnectOldClosed, Phase, Unbuilt, Begun
<1>2. CASE AddStart(t)
  <2>1. config[t] \in Updates /\ config[t].model \in Models
    BY <1>1, <1>2, ClusterAssumption DEF TaskInv, AddsBuilt, AddStart
  <2>2. /\ models_run \in RegistryMap /\ pending \in RegistryMap /\ channel \in Channels
    BY <1>1 DEF TypeOK, RegistryMap, Channels
  <2>3. /\ Add(t, config[t].model, models_run, pending, channel)
        /\ UNCHANGED <<config, initialized>>
    BY <1>2 DEF AddStart
  <2>4. \A r \in Runners : channel[r] = IF r = None /\ channel[r] = "closing" THEN "shut"
                                        ELSE channel[r]
    BY <1>1
  <2>5. /\ \A n \in Models : models_run[n] \in {models_run[n], None} \ ({None} \ {None})
        /\ \A n \in Models : pending[n] \in {pending[n], None} \ ({None} \ {None})
    OBVIOUS
  <2> QED
    BY <1>1, <2>1, <2>2, <2>3, <2>4, <2>5, AddKeeps
<1>3. CASE ReconnectOldClosed(t)
  <2> DEFINE old == target[t]
  <2>1. /\ old \in Runners /\ Begun(old)
        /\ config[old] \in Updates /\ config[old].model \in Models
    BY <1>3, ClusterAssumption
    DEF ReconnectOldClosed, TaskInv, TargetsBegun, Begun, Holding, Closing
  <2>2. /\ Add(t, config[old].model, Forget(models_run, old), Forget(pending, old),
               ShutEnd(channel, old))
        /\ config' = [config EXCEPT ![t] = config[old]] /\ UNCHANGED initialized
    BY <1>3 DEF ReconnectOldClosed
  <2>3. /\ Forget(models_run, old) \in RegistryMap
        /\ Forget(pending, old) \in RegistryMap
        /\ ShutEnd(channel, old) \in Channels
        /\ \A n \in Models : Forget(models_run, old)[n] \in {models_run[n], None} \ {old}
        /\ \A n \in Models : Forget(pending, old)[n] \in {pending[n], None} \ {old}
        /\ \A r \in Runners : ShutEnd(channel, old)[r] =
             IF r = old /\ channel[r] = "closing" THEN "shut" ELSE channel[r]
    BY <1>1, <2>1 DEF Forget, ShutEnd, TypeOK, RegistryMap, Channels
  <2>4. config'[t] \in Updates /\ \A r \in Runners \ {t} : config'[r] = config[r]
    BY <1>1, <2>1, <2>2 DEF TypeOK
  <2>5. {old} \ {None} = {old} /\ old # None
    BY <1>1, <2>1
  <2> HIDE DEF old
  <2> QED
    BY <1>1, <2>1, <2>2, <2>3, <2>4, <2>5, AddKeeps
<1> QED
  BY <1>2, <1>3

\* A dial, a retry and the end of init() are the contract's.
LEMMA InitKeeps ==
  ASSUME TaskInv, NEW t \in Runners, Dial(t) \/ Retry(t) \/ InitReturns(t)
  PROVE  \A r \in Runners : Keeps(r)
<1>1. /\ TypeOK /\ t \in TaskId /\ pc[t] \in Starting /\ config[t] # None
      /\ UNCHANGED <<config, closed>>
  BY Names, ClusterAssumption DEF TaskInv, AddsBuilt, Dial, Retry, InitReturns, InitOk,
     InitAborted, InitFailed, InitRaised, Starting
<1>2. /\ \E q \in Starting \cup {"done", "sending", "raised", "cancelled"} :
           pc' = [pc EXCEPT ![t] = q]
      /\ initialized' \in {initialized, initialized \cup {t}}
      /\ channel' \in {channel, [channel EXCEPT ![t] = "open"]}
  BY DEF Dial, Retry, InitReturns, InitOk, InitAborted, InitFailed, InitRaised, Fail,
     Starting
<1>3. ASSUME NEW r \in Runners, r # t  PROVE Keeps(r)
  <2>1. /\ pc'[r] = pc[r] /\ channel'[r] = channel[r]
        /\ SameInitialized(r) /\ SameClosed(r)
    BY <1>1, <1>2, <1>3 DEF TypeOK, SameInitialized, SameClosed
  <2> QED
    BY <1>1, <2>1, PhaseKept, Idles
<1>4. Keeps(t)
  <2>1. Phase(t) = pc[t] /\ SameClosed(t) /\ Phase(t)' = IF pc'[t] \in Starting THEN pc'[t]
                                                       ELSE "left"
    BY <1>1, <1>2 DEF Phase, Starting, SameClosed, TypeOK
  <2>2. CASE Dial(t)
    <3>1. pc[t] = "probe" /\ pc'[t] = "init" /\ channel'[t] = "open" /\ SameInitialized(t)
      BY <1>1, <2>2 DEF Dial, TypeOK, SameInitialized
    <3>2. Contract(t)!Dial
      BY <2>1, <3>1 DEF Contract!Dial, SameClosed, SameInitialized, Starting
    <3> QED
      BY <3>2 DEF Keeps, Contract!Next
  <2>3. CASE Retry(t)
    <3>1. /\ Secure /\ pc[t] = "init" /\ pc'[t] = "probe" /\ t \notin closed
          /\ channel' = channel /\ SameInitialized(t)
      BY <1>1, <2>3 DEF Retry, TypeOK, SameInitialized
    <3>2. Contract(t)!Retry
      BY <2>1, <3>1 DEF Contract!Retry, SameClosed, SameInitialized, Starting
    <3> QED
      BY <3>2 DEF Keeps, Contract!Next
  <2>4. CASE InitOk(t)
    <3>1. /\ pc[t] = "init" /\ pc'[t] = "done" /\ channel[t] \in {"open", "closing"}
          /\ channel' = channel /\ t \in initialized'
      BY <1>1, <2>4 DEF InitOk, TypeOK
    <3>2. Contract(t)!Succeed
      BY <2>1, <3>1 DEF Contract!Succeed, SameClosed, Starting
    <3> QED
      BY <3>2 DEF Keeps, Contract!Next
  <2>5. CASE InitAborted(t) \/ InitFailed(t) \/ InitRaised(t)
    <3>1. /\ pc'[t] \in {"done", "sending", "raised", "cancelled"}
          /\ channel' = channel /\ SameInitialized(t)
      BY <1>1, <2>5 DEF InitAborted, InitFailed, InitRaised, Fail, TypeOK, SameInitialized
    <3> QED
      BY <1>1, <2>1, <3>1, Fails DEF Starting
  <2> QED
    BY <2>2, <2>3, <2>4, <2>5 DEF InitReturns
<1> QED
  BY <1>3, <1>4

\* What an event does to one runner: nothing, or its task begins, or its settings are
\* those of an entry for it.
LEMMA ReceiveEventEffect ==
  ASSUME TaskInv, NEW type \in {"init", "update"}, NEW data \in Payloads,
         ReceiveEvent(type, data), NEW r \in Runners
  PROVE  \/ config'[r] = config[r] /\ pc'[r] = pc[r]
         \/ config'[r] = config[r] /\ pc[r] = "idle" /\ pc'[r] = "remove"
         \/ config'[r] \in Updates /\ pc[r] = "idle" /\ pc'[r] = "add"
         \/ config'[r] \in Updates /\ pc'[r] = pc[r] /\ Begun(r)
<1> DEFINE n == eventNum + 1
           adding == {<<n, i>> : i \in {j \in 1 .. Len(data) : Adds(data[j])}}
           removing == {<<n, i>> : i \in {j \in 1 .. Len(data) : Removes(data[j])}}
           latest(q) == {i \in 1 .. Len(data) : Refreshes(data[i], q)
                           /\ \A j \in 1 .. Len(data) : Refreshes(data[j], q) => j <= i}
           last(q) == CHOOSE i \in latest(q) : TRUE
<1>1. /\ TypeOK /\ r \in TaskId /\ Len(data) \in 0 .. MaxData
      /\ \A i \in 1 .. Len(data) : data[i] \in Updates /\ data[i].model \in Models
      /\ n \in 1 .. MaxEvents
  BY Names, ClusterAssumption DEF TaskInv, ReceiveEvent, TypeOK
<1>2. \A t \in adding \cup removing : pc[t] = "idle" /\ t[2] \in 1 .. Len(data)
  <2>1. \A t \in adding \cup removing : t \in EntryTask /\ t[1] = n /\ t[2] \in 1 .. Len(data)
    BY <1>1, ClusterAssumption, SMT DEF EntryTask
  <2> QED
    BY <1>1, <2>1, Names DEF TaskInv, FreshIdle, TypeOK
<1>3. /\ pc' = [t \in TaskId |-> IF t \in adding THEN "add"
                                ELSE IF t \in removing THEN "remove" ELSE pc[t]]
      /\ config' = [q \in Runners |-> IF q \in adding THEN data[q[2]]
                                     ELSE IF latest(q) = {} THEN config[q]
                                     ELSE data[last(q)]]
  BY DEF ReceiveEvent
<1>4. latest(r) # {} => Begun(r) /\ data[last(r)] \in Updates
  <2> SUFFICES ASSUME latest(r) # {}  PROVE Begun(r) /\ data[last(r)] \in Updates
    OBVIOUS
  <2>1. last(r) \in 1 .. Len(data) /\ Refreshes(data[last(r)], r)
    OBVIOUS
  <2> QED
    BY <1>1, <2>1, RegisteredBegun DEF Refreshes
<1> HIDE DEF adding, removing, latest, last
<1> QED
  BY <1>1, <1>2, <1>3, <1>4 DEF Begun

\* No runner is touched by the steps of an event's handler, by the start of
\* process_failure or by a call that spawns a task; an event that refreshes the infos
\* of runners, or names one to build, shows nothing of it.
LEMMA HandlerKeeps ==
  ASSUME TaskInv, Unbuilt,
         \/ \E type \in {"init", "update"}, data \in Payloads : ReceiveEvent(type, data)
         \/ Handler
         \/ \E t \in TaskId : FailStart(t)
         \/ \E r \in Runners : Spawn(r)
         \/ UNCHANGED vars
  PROVE  \A r \in Runners : Keeps(r)
<1>1. TypeOK /\ Runners \subseteq TaskId /\ Background \subseteq Runners
  BY Names DEF TaskInv
<1>2. UNCHANGED <<closed, channel, initialized>>
  BY DEF ReceiveEvent, Handler, UpdatesDone, PruneDone, HandlerLeft, FailStart, Spawn, vars
<1>3. \A r \in Runners : SamePhase(r)
  <2>1. CASE \E type \in {"init", "update"}, data \in Payloads : ReceiveEvent(type, data)
    <3>1. ASSUME NEW r \in Runners  PROVE SamePhase(r)
      <4>1. \/ config'[r] = config[r] /\ pc'[r] = pc[r]
            \/ config'[r] = config[r] /\ pc[r] = "idle" /\ pc'[r] = "remove"
            \/ config'[r] \in Updates /\ pc[r] = "idle" /\ pc'[r] = "add"
            \/ config'[r] \in Updates /\ pc'[r] = pc[r] /\ Begun(r)
        BY <2>1, ReceiveEventEffect
      <4>2. CASE config'[r] \in Updates /\ pc[r] = "idle" /\ pc'[r] = "add"
        BY <4>2 DEF Unbuilt, SamePhase, Phase
      <4>3. CASE config'[r] \in Updates /\ pc'[r] = pc[r] /\ Begun(r)
        <5>1. config[r] # None /\ config'[r] # None
          BY <4>3, BegunPhase, ClusterAssumption
        <5> QED
          BY <4>3, <5>1 DEF SamePhase, Phase
      <4>4. CASE config'[r] = config[r] /\ pc'[r] = pc[r]
        BY <4>4 DEF SamePhase, Phase
      <4>5. CASE config'[r] = config[r] /\ pc[r] = "idle" /\ pc'[r] = "remove"
        BY <4>5 DEF SamePhase, Phase, Starting
      <4> QED
        BY <4>1, <4>2, <4>3, <4>4, <4>5
    <3> QED
      BY <3>1
  <2>2. CASE Handler
    <3>1. /\ UNCHANGED config
          /\ \/ UNCHANGED pc
             \/ \E prune \in SUBSET PruneTask :
                  pc' = [t \in TaskId |-> IF t \in prune THEN "remove" ELSE pc[t]]
      BY <2>2 DEF Handler, UpdatesDone, PruneDone, HandlerLeft, ThisEvent
    <3>2. \A r \in Runners : pc'[r] = pc[r]
      BY <1>1, <3>1, Names DEF TypeOK
    <3> QED
      BY <3>1, <3>2, PhaseKept
  <2>3. CASE \E t \in TaskId : FailStart(t)
    <3>1. /\ UNCHANGED config
          /\ \E t \in TaskId : /\ pc[t] = "fail"
                              /\ \E q \in {"sending", "done"} : pc' = [pc EXCEPT ![t] = q]
      BY <2>3 DEF FailStart, Fail
    <3> QED
      BY <1>1, <3>1, PhaseKept DEF TypeOK, Starting
  <2>4. CASE \E r \in Runners : Spawn(r)
    <3>1. /\ UNCHANGED config
          /\ \E t \in TaskId : /\ pc[t] = "idle"
               /\ \E q \in {"fail", "reconnect"} : pc' = [pc EXCEPT ![t] = q]
      BY <1>1, <2>4 DEF Spawn
    <3> QED
      BY <1>1, <3>1, PhaseKept DEF TypeOK, Starting
  <2>5. CASE UNCHANGED vars
    BY <2>5 DEF vars, SamePhase, Phase
  <2> QED
    BY <2>1, <2>2, <2>3, <2>4, <2>5
<1> QED
  BY <1>2, <1>3, Idles DEF SameInitialized, SameClosed

\* Every step keeps the contract of every runner.
LEMMA StepKeeps ==
  ASSUME TaskInv, Unbuilt, [Next]_vars
  PROVE  \A r \in Runners : Keeps(r)
<1>1. ASSUME NEW t \in TaskId, Work(t)  PROVE \A r \in Runners : Keeps(r)
  <2>1. CASE RemoveStart(t) \/ SendDone(t) \/ ReconnectStart(t)
    BY <2>1, RemoveKeeps DEF RemoveStart, SendDone, ReconnectStart, Holding, Closing
  <2>2. CASE Dial(t)
    <3>1. t \in Runners
      BY <2>2, Names DEF Dial, TaskInv, PruneRemoves
    <3> QED
      BY <2>2, <3>1, InitKeeps
  <2> QED
    BY <1>1, <2>1, <2>2, AddingKeeps, HandlerKeeps, RemoveEndKeeps, ReplaceEndKeeps DEF Work
<1>2. ASSUME NEW t \in Runners, Retry(t) \/ InitReturns(t)
      PROVE  \A r \in Runners : Keeps(r)
  BY <1>2, InitKeeps
<1> QED
  BY <1>1, <1>2, HandlerKeeps DEF Next

\* A runner stays unbuilt until its task adds it.
LEMMA StepUnbuilt ==
  ASSUME TaskInv, Unbuilt, [Next]_vars
  PROVE  Unbuilt'
<1> SUFFICES ASSUME NEW r \in Runners, pc'[r] \in {"idle", "reconnect", "reconnecting"}
             PROVE  config'[r] = None
  BY DEF Unbuilt
<1>1. TypeOK /\ r \in TaskId /\ (Begun(r) => pc[r] \notin {"idle", "reconnect", "reconnecting"})
  BY Names DEF TaskInv, Begun
<1>2. CASE \E type \in {"init", "update"}, data \in Payloads : ReceiveEvent(type, data)
  <2>1. config'[r] = config[r] /\ pc'[r] = pc[r]
    BY <1>1, <1>2, ReceiveEventEffect
  <2> QED
    BY <2>1 DEF Unbuilt
<1>3. CASE /\ \A type \in {"init", "update"}, data \in Payloads : ~ReceiveEvent(type, data)
           /\ \A t \in TaskId : ~ReconnectOldClosed(t)
  <2>1. UNCHANGED config
    BY <1>3, Zenon DEF Next, Work, Handler, UpdatesDone, PruneDone, HandlerLeft, AddStart,
       RemoveStart, FailStart, SendDone, ReconnectStart, RemoveEnd, ReplaceEnd, Dial, Retry,
       InitReturns, InitOk, InitAborted, InitFailed, InitRaised, Spawn, vars
  <2>2. pc[r] \in {"idle", "reconnect", "reconnecting"}
    <3>1. CASE Handler \/ UNCHANGED vars
      BY <1>1, <3>1 DEF Handler, UpdatesDone, PruneDone, HandlerLeft, vars
    <3>2. CASE \E q \in Runners : Spawn(q)
      BY <1>1, <3>2 DEF Spawn, TypeOK
    <3>3. ASSUME NEW t \in TaskId,
                 AddStart(t) \/ RemoveStart(t) \/ FailStart(t) \/ SendDone(t)
                   \/ ReconnectStart(t) \/ RemoveEnd(t) \/ ReplaceEnd(t) \/ Dial(t)
                   \/ Retry(t) \/ InitReturns(t)
          PROVE  pc[r] \in {"idle", "reconnect", "reconnecting"}
      <4>1. /\ \E q \in PCs : pc' = [pc EXCEPT ![t] = q]
            /\ pc'[t] \in {"idle", "reconnect", "reconnecting"} => pc[t] = "reconnect"
        <5>1. CASE AddStart(t) \/ ReplaceEnd(t)
          BY <1>1, <5>1 DEF AddStart, ReplaceEnd, Add, BeginInit, TypeOK, PCs, Starting,
             Closing
        <5>2. CASE RemoveStart(t) \/ SendDone(t) \/ RemoveEnd(t)
          BY <1>1, <5>2 DEF RemoveStart, SendDone, RemoveEnd, Remove, TypeOK, PCs, Closing,
             Ended
        <5>3. CASE ReconnectStart(t)
          BY <1>1, <5>3 DEF ReconnectStart, Remove, TypeOK, PCs, Closing, Ended
        <5>4. CASE FailStart(t) \/ Dial(t) \/ Retry(t) \/ InitReturns(t)
          BY <1>1, <5>4 DEF FailStart, Fail, Dial, Retry, InitReturns, InitOk, InitAborted,
             InitFailed, InitRaised, TypeOK, PCs, Starting, Ended
        <5> QED
          BY <3>3, <5>1, <5>2, <5>3, <5>4
      <4> QED
        BY <1>1, <4>1 DEF TypeOK
    <3> QED
      BY <1>3, <3>1, <3>2, <3>3, Names DEF Next, Work
  <2> QED
    BY <2>1, <2>2 DEF Unbuilt
<1>4. ASSUME NEW t \in TaskId, ReconnectOldClosed(t)  PROVE config'[r] = config[r] /\ r # t
  BY <1>1, <1>4 DEF ReconnectOldClosed, Add, BeginInit, TypeOK
<1>5. CASE \E t \in TaskId : ReconnectOldClosed(t)
  <2>1. PICK t \in TaskId : ReconnectOldClosed(t)
    BY <1>5
  <2>2. config'[r] = config[r] /\ r # t
    BY <1>4, <2>1
  <2>3. pc'[r] = pc[r]
    BY <1>1, <2>1, <2>2 DEF ReconnectOldClosed, Add, BeginInit, TypeOK
  <2> QED
    BY <2>2, <2>3 DEF Unbuilt
<1> QED
  BY <1>2, <1>3, <1>5

-----------------------------------------------------------------------------
\* However many events, entries and calls race for the runners, each keeps the
\* contract: it is closed only once its init() has begun, begins it once, dials again
\* only while it is not closed and succeeds only on a channel that is not shut.
THEOREM ClusterKeepsContract == Spec => RunnersKeepContract
<1>1. Init => Unbuilt /\ \A r \in Runners : Contract(r)!Init
  <2> SUFFICES ASSUME Init, NEW r \in Runners
               PROVE  config[r] = None /\ Contract(r)!Init
    BY DEF Unbuilt
  <2>1. config[r] = None /\ channel[r] = "none" /\ r \notin closed /\ r \notin initialized
    BY DEF Init
  <2>2. Phase(r) = "new"
    BY <2>1 DEF Phase
  <2>3. Secure \in BOOLEAN
    BY ClusterAssumption
  <2> QED
    BY <2>1, <2>2, <2>3 DEF Contract!Init
<1>2. TaskInv /\ Unbuilt /\ [Next]_vars => Unbuilt'
  BY StepUnbuilt
<1>3. TaskInv /\ Unbuilt /\ [Next]_vars =>
        [\A r \in Runners : [Contract(r)!Next]_(Contract(r)!vars)]_vars
  BY StepKeeps DEF Keeps
<1> QED
  BY <1>1, <1>2, <1>3, TaskInvariant, PTL DEF Spec, RunnersKeepContract
=============================================================================
