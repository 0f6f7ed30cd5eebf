-------------------------- MODULE ConcurrentRunner --------------------------
(***************************************************************************)
(* Calls on the models: ModelConcurrentRunner                              *)
(* (model_concurrent_runner.py) and the counters of ModelRunner it drives, *)
(* should_skip_for_timeout_reason included.  A call runs one execution per *)
(* runner and waits for all of them; calls may overlap, as the coordinator *)
(* may await several at once.  Each action is the segment of an execution  *)
(* between two awaits.                                                     *)
(***************************************************************************)
EXTENDS Integers

\* (Definitions named Faulty... are no part of the model: each is a plausible
\* defect of the definition after it, and breaks a property when put in its place.)

CONSTANTS Models,       \* the models called
          Runners,      \* names of runners: one is used again when its runner is gone
          ModelOf,      \* the model of each
          Slots,        \* calls that may be under way at once
          MaxFailures,  \* max_consecutive_failures
          MaxTimeouts,  \* max_consecutive_timeouts
          Faults,       \* the ways an asked model may fail to succeed
          CountBound    \* bound: counters past which no call is made

AllFaults == {"error", "bad", "timeout", "auth", "misuse"}

ASSUME RunnerAssumption ==
  /\ MaxFailures \in Nat /\ MaxTimeouts \in Nat /\ CountBound \in Nat
  /\ Faults \subseteq AllFaults
  /\ ModelOf \in [Runners -> Models]

\* max(1, int(max_consecutive_timeout * 0.2))
HealthCheckThreshold == IF MaxTimeouts < 10 THEN 1 ELSE MaxTimeouts \div 5

VARIABLES
  failures, timeouts, cooldown,  \* consecutive_failures, consecutive_timeouts,
                                 \* cooldown_calls_remaining of each runner
  present,    \* the runners still registered (ModelCluster.models_run)
  closed,     \* those whose channels are closed: their removal has begun
  scheduled,  \* create_task: failure codes, or a "reconnect" to come, of each runner
  exec,       \* per call and runner: where its execution stands, or its status
  outcome,    \* per call: "idle", "running", "returned" or "raised"
  missed,     \* history: times the runner was asked and did not succeed, since
              \* it last did, counted up to 2
  overlapped  \* history: a call was made while another was under way

counters == <<failures, timeouts, cooldown>>
vars == <<counters, present, closed, scheduled, exec, outcome, missed, overlapped>>

Waiting == {"ready", "asked", "checking"}
Statuses == {"SUCCESS", "FAILED", "TIMEOUT", "None", "cancelled"}
Codes == {"BAD_IMPLEMENTATION", "MULTIPLE_FAILED", "MULTIPLE_TIMEOUT",
          "CONNECTION_FAILED", "reconnect"}

TypeOK ==
  /\ failures \in [Runners -> Nat]
  /\ timeouts \in [Runners -> Nat]
  /\ cooldown \in [Runners -> Nat \cup {-1}]
  /\ present \subseteq Runners
  /\ closed \subseteq Runners
  /\ scheduled \in [Runners -> SUBSET Codes]
  /\ exec \in [Slots -> [Runners -> {"none"} \cup Waiting \cup Statuses]]
  /\ outcome \in [Slots -> {"idle", "running", "returned", "raised"}]
  /\ missed \in [Runners -> 0 .. 2]
  /\ overlapped \in BOOLEAN

\* The registry has one runner of a model at most; a name not in use stands for a
\* runner that has left.
Init ==
  /\ failures = [r \in Runners |-> 0]
  /\ timeouts = [r \in Runners |-> 0]
  /\ cooldown = [r \in Runners |-> 0]
  /\ present \in SUBSET Runners
  /\ \A r, q \in present : ModelOf[r] = ModelOf[q] => r = q
  /\ closed = Runners \ present
  /\ scheduled = [r \in Runners |-> {}]
  /\ exec = [s \in Slots |-> [r \in Runners |-> "none"]]
  /\ outcome = [s \in Slots |-> "idle"]
  /\ missed = [r \in Runners |-> 0]
  /\ overlapped = FALSE

-----------------------------------------------------------------------------
Schedule(r, codes) == scheduled' = [scheduled EXCEPT ![r] = @ \cup codes]
Goto(s, r, place) == exec' = [exec EXCEPT ![s][r] = place]
Miss(r) == missed' = [missed EXCEPT ![r] = IF @ < 2 THEN @ + 1 ELSE @]

\* Defect: at the limit instead of past it.
FaultyTooManyTimeouts(n) ==
  IF MaxTimeouts > 0 /\ n >= MaxTimeouts THEN {"MULTIPLE_TIMEOUT"} ELSE {}

\* The last lines of the timeout branch: MULTIPLE_TIMEOUT past the limit.
TooManyTimeouts(n) ==
  IF MaxTimeouts > 0 /\ n > MaxTimeouts THEN {"MULTIPLE_TIMEOUT"} ELSE {}

\* The runner is healthy: the timeout counts.
Penalise(s, r) ==
  /\ timeouts' = [timeouts EXCEPT ![r] = @ + 1]
  /\ Schedule(r, TooManyTimeouts(timeouts[r] + 1))
  /\ Goto(s, r, "TIMEOUT")

\* The timeout branch up to the health check, if one is due.
TimedOut(s, r) ==
  IF timeouts[r] > 0 /\ timeouts[r] % HealthCheckThreshold = 0
  THEN Goto(s, r, "checking") /\ UNCHANGED <<timeouts, scheduled>>
  ELSE Penalise(s, r)

-----------------------------------------------------------------------------
\* model_runs or the registered runners: an empty list is as good as none.
Called(model_runs) == IF model_runs = {} THEN present ELSE model_runs

\* _execute_concurrent_method: one execution for each runner.  The caller may name
\* runners that have left the registry since.
Call(s, model_runs) ==
  /\ outcome[s] # "running"
  /\ Called(model_runs) # {}
  /\ \A r \in Called(model_runs) : failures[r] <= CountBound /\ timeouts[r] <= CountBound
  /\ outcome' = [outcome EXCEPT ![s] = "running"]
  /\ exec' = [exec EXCEPT
       ![s] = [r \in Runners |-> IF r \in Called(model_runs) THEN "ready" ELSE "none"]]
  /\ overlapped' = (overlapped \/ \E q \in Slots : outcome[q] = "running")
  /\ UNCHANGED <<counters, present, closed, scheduled, missed>>

\* should_skip_for_timeout_reason is False: the model is asked.  The call after a
\* pause is let through and marked by -1.
Ask(s, r) ==
  /\ exec[s][r] = "ready"
  /\ \/ cooldown[r] = 0
     \/ cooldown[r] < 0 /\ timeouts[r] = 0
  /\ cooldown' = [cooldown EXCEPT ![r] = -1]
  /\ Goto(s, r, "asked")
  /\ UNCHANGED <<failures, timeouts, present, closed, scheduled, outcome, missed, overlapped>>

\* Defect: the test of the pause lets the mark -1 be decremented.
FaultySkip(s, r) ==
  /\ exec[s][r] = "ready"
  /\ cooldown[r] # 0
  /\ cooldown' = [cooldown EXCEPT ![r] = @ - 1]
  /\ TimedOut(s, r)
  /\ UNCHANGED <<failures, present, closed, outcome, missed, overlapped>>

\* It is True: the pause goes on, or one of half the timeouts begins.  The skipped
\* call is treated as one that timed out.
Skip(s, r) ==
  /\ exec[s][r] = "ready"
  /\ \/ /\ cooldown[r] > 0
        /\ cooldown' = [cooldown EXCEPT ![r] = @ - 1]
     \/ /\ cooldown[r] < 0 /\ timeouts[r] > 0
        /\ cooldown' = [cooldown EXCEPT ![r] = (timeouts[r] + 1) \div 2 - 1]
  /\ TimedOut(s, r)
  /\ UNCHANGED <<failures, present, closed, outcome, missed, overlapped>>

\* The answer of the model comes.  (One that came before close() is taken before it;
\* after it, only Misused and Cancelled end the wait.)
Answered(s, r) == exec[s][r] = "asked" /\ r \notin closed

Succeeds(s, r) ==
  /\ Answered(s, r)
  /\ failures' = [failures EXCEPT ![r] = 0]
  /\ timeouts' = [timeouts EXCEPT ![r] = 0]
  /\ missed' = [missed EXCEPT ![r] = 0]
  /\ Goto(s, r, "SUCCESS")
  /\ UNCHANGED <<cooldown, present, closed, scheduled, outcome, overlapped>>

\* FAILED, or a value that cannot be decoded.
Errs(s, r) ==
  /\ "error" \in Faults
  /\ Answered(s, r)
  /\ failures' = [failures EXCEPT ![r] = @ + 1]
  /\ Schedule(r, IF MaxFailures > 0 /\ failures[r] + 1 > MaxFailures
                 THEN {"MULTIPLE_FAILED"} ELSE {})
  /\ Miss(r)
  /\ Goto(s, r, "FAILED")
  /\ UNCHANGED <<timeouts, cooldown, present, closed, outcome, overlapped>>

BadImplementation(s, r) ==
  /\ "bad" \in Faults
  /\ Answered(s, r)
  /\ Schedule(r, {"BAD_IMPLEMENTATION"})
  /\ Miss(r)
  /\ Goto(s, r, "FAILED")
  /\ UNCHANGED <<counters, present, closed, outcome, overlapped>>

\* A deadline or any other AioRpcError.
TimesOut(s, r) ==
  /\ "timeout" \in Faults
  /\ Answered(s, r)
  /\ TimedOut(s, r)
  /\ Miss(r)
  /\ UNCHANGED <<failures, cooldown, present, closed, outcome, overlapped>>

\* The handler of AuthError returns no result.
AuthFails(s, r) ==
  /\ "auth" \in Faults
  /\ Answered(s, r)
  /\ Schedule(r, {"CONNECTION_FAILED"})
  /\ Miss(r)
  /\ Goto(s, r, "None")
  /\ UNCHANGED <<counters, present, closed, outcome, overlapped>>

\* Any other exception: the method is used wrongly, or its channel is closed.
Misused(s, r) ==
  /\ "misuse" \in Faults \/ r \in closed
  /\ exec[s][r] = "asked"
  /\ Miss(r)
  /\ Goto(s, r, "FAILED")
  /\ UNCHANGED <<counters, present, closed, scheduled, outcome, overlapped>>

\* close() closes both channels: it cancels the answer, or the health check, that is
\* awaited.  CancelledError is no Exception, so nothing is counted or scheduled.
Cancelled(s, r) ==
  /\ r \in closed
  /\ \/ exec[s][r] = "asked" /\ Miss(r)
     \/ exec[s][r] = "checking" /\ UNCHANGED missed
  /\ Goto(s, r, "cancelled")
  /\ UNCHANGED <<counters, present, closed, scheduled, outcome, overlapped>>

\* Defect: the unhealthy runner is not reconnected.
FaultyChecked(s, r) ==
  /\ exec[s][r] = "checking"
  /\ \/ Penalise(s, r)
     \/ /\ Schedule(r, TooManyTimeouts(timeouts[r]))
        /\ Goto(s, r, "TIMEOUT")
        /\ UNCHANGED timeouts
  /\ UNCHANGED <<failures, cooldown, present, closed, outcome, missed, overlapped>>

\* The answer of the health check, or an Exception in its place.
Checked(s, r) ==
  /\ exec[s][r] = "checking"
  /\ \/ Penalise(s, r)
     \/ /\ Schedule(r, {"reconnect"} \cup TooManyTimeouts(timeouts[r]))
        /\ Goto(s, r, "TIMEOUT")
        /\ UNCHANGED timeouts
  /\ UNCHANGED <<failures, cooldown, present, closed, outcome, missed, overlapped>>

\* gather() is over: exceptions are dropped, and each other result is asked for
\* its runner, which None has not.
CallReturns(s) ==
  /\ outcome[s] = "running"
  /\ \A r \in Runners : exec[s][r] \notin Waiting
  /\ outcome' = [outcome EXCEPT
       ![s] = IF \E r \in Runners : exec[s][r] = "None" THEN "raised" ELSE "returned"]
  /\ UNCHANGED <<counters, present, closed, scheduled, exec, missed, overlapped>>

\* A removal begins, by a scheduled task or an event: close() of the runner.
Close(r) ==
  /\ closed' = closed \cup {r}
  /\ UNCHANGED <<counters, present, scheduled, exec, outcome, missed, overlapped>>

\* It ends: the runner is out of the registry.
Leave(r) ==
  /\ r \in closed
  /\ present' = present \ {r}
  /\ UNCHANGED <<counters, closed, scheduled, exec, outcome, missed, overlapped>>

\* An execution of a call under way uses runner r.
Held(r) == \E s \in Slots : outcome[s] = "running" /\ exec[s][r] # "none"

SameModel(r) == {p \in Runners : ModelOf[p] = ModelOf[r]}

\* reconnect_model_runner, which adds a new runner q in place of any of its model:
\* all counters begin anew.
Reconnect(r, q) ==
  /\ "reconnect" \in scheduled[r]
  /\ q \in SameModel(r) /\ ~Held(q)
  /\ present' = (present \ SameModel(r)) \cup {q}
  /\ closed' = (closed \cup SameModel(r)) \ {q}
  /\ failures' = [failures EXCEPT ![q] = 0]
  /\ timeouts' = [timeouts EXCEPT ![q] = 0]
  /\ cooldown' = [cooldown EXCEPT ![q] = 0]
  /\ missed' = [missed EXCEPT ![q] = 0]
  /\ scheduled' = [scheduled EXCEPT ![r] = @ \ {"reconnect"}, ![q] = {}]
  /\ UNCHANGED <<exec, outcome, overlapped>>

\* Its init() fails: the model is reported and none of its runners is registered.
ReconnectFails(r) ==
  /\ "reconnect" \in scheduled[r]
  /\ present' = present \ SameModel(r)
  /\ closed' = closed \cup SameModel(r)
  /\ scheduled' = [scheduled EXCEPT ![r] = @ \ {"reconnect"}]
  /\ UNCHANGED <<counters, exec, outcome, missed, overlapped>>

Reconnected(r) == ReconnectFails(r) \/ \E q \in Runners : Reconnect(r, q)

Execution(s, r) ==
  \/ Ask(s, r) \/ Skip(s, r) \/ Checked(s, r)
  \/ Succeeds(s, r) \/ Errs(s, r) \/ BadImplementation(s, r)
  \/ TimesOut(s, r) \/ AuthFails(s, r) \/ Misused(s, r) \/ Cancelled(s, r)

Next ==
  \/ \E s \in Slots, model_runs \in SUBSET Runners : Call(s, model_runs)
  \/ \E s \in Slots : CallReturns(s)
  \/ \E s \in Slots, r \in Runners : Execution(s, r)
  \/ \E r \in Runners : Close(r) \/ Leave(r) \/ Reconnected(r)

Spec == Init /\ [][Next]_vars

\* Every execution ends (each await has a timeout), scheduled tasks run and close
\* the runner, reconnections end, and the coordinator goes on calling all the
\* registered models, whatever other calls it makes (strong fairness).
FairSpec ==
  /\ Spec
  /\ SF_vars(\E s \in Slots : Call(s, {}))
  /\ \A s \in Slots : WF_vars(CallReturns(s))
  /\ \A s \in Slots, r \in Runners : WF_vars(Execution(s, r))
  /\ \A r \in Runners : /\ WF_vars(scheduled[r] # {} /\ Close(r))
                          /\ WF_vars(Leave(r)) /\ WF_vars(Reconnected(r))

-----------------------------------------------------------------------------
(***************************************************************************)
(* Properties.                                                             *)
(***************************************************************************)

\* A skipped call counts as a timeout, and still no runner that is called one call
\* at a time, with a limit above 1, is declared MULTIPLE_TIMEOUT on the evidence of
\* one answer: it was asked again after the pause, and missed that one too.
FaultNeedsTwoMisses ==
  [][\A r \in Runners :
       "MULTIPLE_TIMEOUT" \in scheduled'[r] \ scheduled[r] /\ ~overlapped =>
         missed'[r] = 2]_vars

\* A runner of model m answers in time and well.
AnswerOf(m) == \E s \in Slots, r \in Runners :
  ModelOf[r] = m /\ exec[s][r] = "asked" /\ exec'[s][r] = "SUCCESS"

ReconnectionOf(m) == \E r, q \in Runners : ModelOf[r] = m /\ Reconnect(r, q)

IsRegistered(m) == \E r \in present : ModelOf[r] = m

\* Runners of model m are closed and replaced by their own tasks alone.
LeftAlone(m) == \A r \in Runners : ModelOf[r] = m =>
  /\ Close(r) => scheduled[r] # {}
  /\ ~ReconnectFails(r)

\* A model that never succeeds again leaves the registry for good or is connected
\* anew for ever: it is not just called on, though it is not asked during its pauses,
\* the timeouts of an unhealthy runner are not counted, a check may be cancelled and
\* calls overlap.  (Its faults are its own: a misused method counts for nothing.)
FaultyLeaves == \A m \in Models :
  <>[][~AnswerOf(m)]_vars => <>[]~IsRegistered(m) \/ []<><<ReconnectionOf(m)>>_vars

\* "If the model continues to fail or exceed its timeout limit, it is marked as
\* faulty and stopped": a model that never succeeds again leaves the registry, even
\* if no event takes it away and no reconnection of it fails.
FaultyStopped == \A m \in Models :
  <>[][~AnswerOf(m) /\ LeftAlone(m)]_vars => <>[]~IsRegistered(m)

\* The results of a call are not lost: it returns its dictionary.
CallReturnsResults == \A s \in Slots : outcome[s] # "raised"

\* "Once the model responds successfully again, all penalties are cleared, and it
\* resumes normal operation": no pause outlasts a success.
PenaltiesCleared ==
  [][\A s \in Slots, r \in Runners : exec[s][r] = "asked" /\ exec'[s][r] = "SUCCESS" =>
       failures'[r] = 0 /\ timeouts'[r] = 0 /\ cooldown'[r] <= 0]_vars
=============================================================================
