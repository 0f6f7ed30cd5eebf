----------------------- MODULE ConcurrentRunnerProofs -----------------------
(***************************************************************************)
(* Proofs about ConcurrentRunner, for every number of runners and every    *)
(* limit; those about pauses for calls that do not overlap.                *)
(***************************************************************************)
EXTENDS ConcurrentRunner, TLAPS

\* Only an execution of a call under way waits.  Only the branch of AuthError ends
\* without a result, and only such an end makes a call raise.
CallInv ==
  /\ TypeOK
  /\ \A s \in Slots, r \in Runners :
       /\ outcome[s] # "running" => exec[s][r] \notin Waiting
       /\ exec[s][r] = "None" => "auth" \in Faults
  /\ \A s \in Slots : outcome[s] = "raised" => "auth" \in Faults

\* The timeout branch keeps the types, and leaves the execution checking the health
\* of the model or done.
LEMMA TimedOutEffect ==
  ASSUME TypeOK, NEW s \in Slots, NEW r \in Runners, TimedOut(s, r)
  PROVE  /\ timeouts' \in [Runners -> Nat]
         /\ scheduled' \in [Runners -> SUBSET Codes]
         /\ \E place \in {"checking", "TIMEOUT"} : Goto(s, r, place)
<1>1. CASE Goto(s, r, "checking") /\ UNCHANGED <<timeouts, scheduled>>
  BY <1>1 DEF TypeOK
<1>2. CASE Penalise(s, r)
  BY <1>2 DEF Penalise, Schedule, TooManyTimeouts, TypeOK, Codes
<1> QED
  BY <1>1, <1>2 DEF TimedOut

\* A step of one execution of a running call keeps the invariant if it keeps the
\* types of the counters, and has a result unless the model may fail to
\* authenticate itself.
LEMMA GotoCallInv ==
  ASSUME CallInv, NEW s \in Slots, NEW r \in Runners,
         exec[s][r] \in Waiting, NEW place \in Waiting \cup Statuses, Goto(s, r, place),
         place = "None" => "auth" \in Faults,
         UNCHANGED <<present, closed, outcome, overlapped>>,
         failures' \in [Runners -> Nat], timeouts' \in [Runners -> Nat],
         cooldown' \in [Runners -> Nat \cup {-1}],
         scheduled' \in [Runners -> SUBSET Codes], missed' \in [Runners -> 0 .. 2]
  PROVE  CallInv'
<1>1. outcome[s] = "running"
  BY DEF CallInv
<1>2. TypeOK'
  BY DEF CallInv, TypeOK, Goto
<1>3. \A q \in Slots, p \in Runners :
        exec'[q][p] = IF q = s /\ p = r THEN place ELSE exec[q][p]
  BY DEF CallInv, TypeOK, Goto
<1> QED
  BY <1>1, <1>2, <1>3 DEF CallInv

\* Every step of an execution keeps the types and the statuses.
LEMMA ExecutionCallInv ==
  ASSUME CallInv, NEW s \in Slots, NEW r \in Runners, Execution(s, r)
  PROVE  CallInv'
<1> USE DEF TypeOK, Waiting, Statuses, Codes, Schedule, Miss, Answered, counters
<1>1. TypeOK
  BY DEF CallInv
<1>2. CASE Ask(s, r)
  BY <1>1, <1>2, GotoCallInv DEF Ask
<1>3. CASE Skip(s, r)
  <2>1. cooldown' \in [Runners -> Nat \cup {-1}]
    BY <1>1, <1>3, SMT DEF Skip
  <2>2. PICK place \in {"checking", "TIMEOUT"} : Goto(s, r, place)
    BY <1>1, <1>3, TimedOutEffect DEF Skip
  <2>3. timeouts' \in [Runners -> Nat] /\ scheduled' \in [Runners -> SUBSET Codes]
    BY <1>1, <1>3, TimedOutEffect DEF Skip
  <2> QED
    BY <1>1, <1>3, <2>1, <2>2, <2>3, GotoCallInv DEF Skip
<1>4. CASE Checked(s, r)
  <2>1. timeouts' \in [Runners -> Nat] /\ scheduled' \in [Runners -> SUBSET Codes]
    BY <1>1, <1>4 DEF Checked, Penalise, TooManyTimeouts
  <2>2. Goto(s, r, "TIMEOUT")
    BY <1>4 DEF Checked, Penalise
  <2> QED
    BY <1>1, <1>4, <2>1, <2>2, GotoCallInv DEF Checked
<1>5. CASE Succeeds(s, r)
  BY <1>1, <1>5, GotoCallInv DEF Succeeds
<1>6. CASE Errs(s, r)
  BY <1>1, <1>6, GotoCallInv DEF Errs
<1>7. CASE BadImplementation(s, r)
  BY <1>1, <1>7, GotoCallInv DEF BadImplementation
<1>8. CASE TimesOut(s, r)
  BY <1>1, <1>8, TimedOutEffect, GotoCallInv DEF TimesOut
<1>9. CASE AuthFails(s, r)
  BY <1>1, <1>9, GotoCallInv DEF AuthFails
<1>10. CASE Misused(s, r)
  BY <1>1, <1>10, GotoCallInv DEF Misused
<1>11. CASE Cancelled(s, r)
  BY <1>1, <1>11, GotoCallInv DEF Cancelled
<1> QED
  BY <1>2, <1>3, <1>4, <1>5, <1>6, <1>7, <1>8, <1>9, <1>10, <1>11
  DEF Execution

\* CallInv is inductive.
THEOREM CallInvariant == Spec => []CallInv
<1>1. Init => CallInv
  <2> SUFFICES ASSUME Init PROVE CallInv
    OBVIOUS
  <2>1. present \subseteq Runners /\ closed \subseteq Runners
    BY DEF Init
  <2>2. \A s \in Slots : outcome[s] = "idle" /\ \A r \in Runners : exec[s][r] = "none"
    BY DEF Init
  <2>3. /\ failures \in [Runners -> Nat] /\ timeouts \in [Runners -> Nat]
        /\ cooldown \in [Runners -> Nat \cup {-1}] /\ missed \in [Runners -> 0 .. 2]
    BY DEF Init
  <2>4. /\ scheduled \in [Runners -> SUBSET Codes] /\ overlapped \in BOOLEAN
        /\ exec \in [Slots -> [Runners -> {"none"} \cup Waiting \cup Statuses]]
        /\ outcome \in [Slots -> {"idle", "running", "returned", "raised"}]
    BY DEF Init
  <2>5. TypeOK
    BY <2>1, <2>3, <2>4 DEF TypeOK
  <2> QED
    BY <2>2, <2>5 DEF CallInv, Waiting
<1>2. CallInv /\ [Next]_vars => CallInv'
  <2> SUFFICES ASSUME CallInv, [Next]_vars PROVE CallInv'
    OBVIOUS
  <2> USE DEF CallInv, TypeOK, Waiting, Statuses, Codes, counters
  <2>1. ASSUME NEW s \in Slots, NEW model_runs \in SUBSET Runners, Call(s, model_runs)
        PROVE  CallInv'
    BY <2>1 DEF Call
  <2>2. ASSUME NEW s \in Slots, CallReturns(s) PROVE CallInv'
    BY <2>2 DEF CallReturns
  <2>3. ASSUME NEW s \in Slots, NEW r \in Runners, Execution(s, r) PROVE CallInv'
    BY <2>3, ExecutionCallInv
  <2>4. ASSUME NEW r \in Runners, Close(r) \/ Leave(r) PROVE CallInv'
    BY <2>4 DEF Close, Leave
  <2>5. ASSUME NEW r \in Runners, ReconnectFails(r) PROVE CallInv'
    BY <2>5 DEF ReconnectFails, SameModel
  <2>6. ASSUME NEW r \in Runners, NEW q \in Runners, Reconnect(r, q) PROVE CallInv'
    BY <2>6 DEF Reconnect, SameModel
  <2>7. CASE UNCHANGED vars
    BY <2>7 DEF vars
  <2> QED
    BY <2>1, <2>2, <2>3, <2>4, <2>5, <2>6, <2>7 DEF Next, Reconnected
<1> QED
  BY <1>1, <1>2, PTL DEF Spec

\* The counters, the executions and the calls keep their types.
THEOREM CallTypesCorrect == Spec => []TypeOK
<1>1. CallInv => TypeOK
  BY DEF CallInv
<1> QED
  BY <1>1, CallInvariant, PTL

\* AuthError is the only way to lose the results of a call: as long as every model
\* proves who it is, errors, timeouts, misuse and removals at any moment cost no call
\* its dictionary.
THEOREM ResultsUnlessAuthFails ==
  ASSUME "auth" \notin Faults PROVE Spec => []CallReturnsResults
<1>1. CallInv => CallReturnsResults
  BY DEF CallInv, CallReturnsResults
<1> QED
  BY <1>1, CallInvariant, PTL

-----------------------------------------------------------------------------
\* The model is asked with the mark -1, that is with no pause left; and as long as
\* it missed one answer at most, its timeouts are that answer and one skipped call,
\* after which it is asked again before any other skip.
Paced(s, r) ==
  /\ exec[s][r] = "asked" => cooldown[r] = -1
  /\ missed[r] <= 1 =>
       /\ timeouts[r] <= 2 * missed[r]
       /\ cooldown[r] <= 0
       /\ exec[s][r] = "checking" => timeouts[r] = 1 /\ cooldown[r] = 0
       /\ cooldown[r] = -1 /\ timeouts[r] = 2 => exec[s][r] = "asked"

\* No call but that of slot s is under way.
Foreground(s) == \A q \in Slots : outcome[q] = "running" => q = s

\* As long as no two calls were under way at once, every runner keeps its pace for
\* the call that is, or for any if none is.
PauseInv == ~overlapped =>
  /\ \A s, q \in Slots : outcome[s] = "running" /\ outcome[q] = "running" => s = q
  /\ \A s \in Slots, r \in Runners : Foreground(s) => Paced(s, r)

\* A step of an execution leaves the other runners alone.
LEMMA OthersKept ==
  ASSUME TypeOK, NEW s \in Slots, NEW r \in Runners, Execution(s, r),
         NEW p \in Runners \ {r}
  PROVE  /\ exec'[s][p] = exec[s][p] /\ cooldown'[p] = cooldown[p]
         /\ timeouts'[p] = timeouts[p] /\ missed'[p] = missed[p]
<1> USE DEF TypeOK, counters, Goto, Miss, Answered
<1>1. CASE Ask(s, r) \/ Succeeds(s, r)
  BY <1>1 DEF Ask, Succeeds
<1>2. CASE Skip(s, r) \/ TimesOut(s, r)
  BY <1>2 DEF Skip, TimesOut, TimedOut, Penalise
<1>3. CASE Checked(s, r)
  BY <1>3 DEF Checked, Penalise
<1>4. CASE Errs(s, r) \/ BadImplementation(s, r) \/ AuthFails(s, r)
  BY <1>4 DEF Errs, BadImplementation, AuthFails
<1>5. CASE Misused(s, r) \/ Cancelled(s, r)
  BY <1>5 DEF Misused, Cancelled
<1> QED
  BY <1>1, <1>2, <1>3, <1>4, <1>5 DEF Execution

\* A skip after at most one missed answer follows a first timeout, and its pause is
\* that one call.
LEMMA FirstSkip ==
  ASSUME TypeOK, NEW s \in Slots, NEW r \in Runners, Skip(s, r), Paced(s, r),
         missed[r] <= 1
  PROVE  timeouts[r] = 1 /\ missed[r] = 1 /\ cooldown'[r] = 0
<1>1. /\ missed[r] \in 0 .. 1 /\ timeouts[r] \in Nat /\ exec[s][r] = "ready"
      /\ cooldown[r] \in Nat \cup {-1}
  BY DEF TypeOK, Skip
<1>2. cooldown[r] <= 0 /\ timeouts[r] <= 2 * missed[r]
  BY DEF Paced
<1>3. /\ cooldown[r] < 0 /\ timeouts[r] > 0
      /\ cooldown' = [cooldown EXCEPT ![r] = (timeouts[r] + 1) \div 2 - 1]
  BY <1>1, <1>2 DEF Skip
<1>4. timeouts[r] = 1 /\ missed[r] = 1
  BY <1>1, <1>2, <1>3 DEF Paced
<1>5. cooldown'[r] = (1 + 1) \div 2 - 1
  BY <1>3, <1>4 DEF TypeOK
<1> QED
  BY <1>4, <1>5, SMT

\* Each step of the only execution of a runner keeps its pace.
LEMMA StepPaced ==
  ASSUME TypeOK, NEW s \in Slots, NEW r \in Runners, Execution(s, r), Paced(s, r)
  PROVE  Paced(s, r)'
<1> USE DEF TypeOK, counters, Goto, Miss, Paced, Answered
<1>1. CASE Ask(s, r)
  BY <1>1 DEF Ask
<1>2. CASE Skip(s, r)
  <2>1. exec'[s][r] \in {"checking", "TIMEOUT"}
    BY <1>2 DEF Skip, TimedOut, Penalise
  <2>2. missed' = missed /\ timeouts'[r] \in {timeouts[r], timeouts[r] + 1}
    BY <1>2 DEF Skip, TimedOut, Penalise
  <2>3. exec'[s][r] = "checking" => timeouts' = timeouts
    BY <1>2 DEF Skip, TimedOut, Penalise
  <2> QED
    BY <1>2, <2>1, <2>2, <2>3, FirstSkip
<1>3. CASE Succeeds(s, r)
  BY <1>3 DEF Succeeds
<1>4. CASE TimesOut(s, r)
  BY <1>4, SMTT(30) DEF TimesOut, TimedOut, Penalise
<1>5. CASE Checked(s, r)
  BY <1>5 DEF Checked, Penalise
<1>6. CASE Errs(s, r) \/ BadImplementation(s, r) \/ AuthFails(s, r)
  BY <1>6 DEF Errs, BadImplementation, AuthFails
<1>7. CASE Misused(s, r) \/ Cancelled(s, r)
  BY <1>7 DEF Misused, Cancelled
<1> QED
  BY <1>1, <1>2, <1>3, <1>4, <1>5, <1>6, <1>7 DEF Execution

\* An execution takes a step for a call under way: one that keeps its pace if no
\* other call is.
LEMMA ExecutionPaced ==
  ASSUME CallInv, PauseInv, ~overlapped, NEW s \in Slots, NEW r \in Runners,
         Execution(s, r)
  PROVE  /\ Foreground(s) /\ Paced(s, r) /\ UNCHANGED <<outcome, overlapped>>
         /\ \A q \in Slots : Foreground(q) => q = s
<1>1. exec[s][r] \in Waiting /\ UNCHANGED <<outcome, overlapped>>
  BY DEF Execution, Ask, Skip, Checked, Succeeds, Errs, BadImplementation, TimesOut,
     AuthFails, Misused, Cancelled, Waiting, Answered
<1>2. outcome[s] = "running"
  BY <1>1 DEF CallInv
<1>3. Foreground(s)
  BY <1>2 DEF PauseInv, Foreground
<1> QED
  BY <1>1, <1>2, <1>3 DEF PauseInv, Foreground

\* PauseInv is inductive.
THEOREM PauseInvariant == Spec => [](CallInv /\ PauseInv)
<1>1. Init => PauseInv
  <2> SUFFICES ASSUME Init PROVE PauseInv
    OBVIOUS
  <2>1. \A s \in Slots, r \in Runners :
          /\ exec[s][r] = "none" /\ cooldown[r] = 0 /\ timeouts[r] = 0 /\ missed[r] = 0
    BY DEF Init
  <2>2. ASSUME NEW s \in Slots, NEW r \in Runners PROVE Paced(s, r)
    BY <2>1 DEF Paced
  <2>3. \A s \in Slots : outcome[s] # "running"
    BY DEF Init
  <2> QED
    BY <2>2, <2>3 DEF PauseInv
<1>2. CallInv /\ PauseInv /\ [Next]_vars => PauseInv'
  <2> SUFFICES ASSUME CallInv, PauseInv, [Next]_vars, ~overlapped'
               PROVE  PauseInv'
    BY DEF PauseInv
  <2>0. TypeOK /\ \A s \in Slots, r \in Runners :
                    outcome[s] # "running" => exec[s][r] \notin {"asked", "checking"}
    BY DEF CallInv, Waiting
  <2>1. ASSUME NEW s \in Slots, NEW model_runs \in SUBSET Runners, Call(s, model_runs)
        PROVE  PauseInv'
    <3>1. /\ ~overlapped /\ \A q \in Slots : outcome[q] # "running"
          /\ \A q \in Slots : outcome'[q] = "running" <=> q = s
      BY <2>0, <2>1 DEF Call, TypeOK
    <3>2. ASSUME NEW p \in Runners PROVE Paced(s, p)'
      <4>1. Paced(s, p) /\ exec[s][p] \notin {"asked", "checking"}
        BY <2>0, <3>1 DEF PauseInv, Foreground
      <4>2. exec'[s][p] \in {"ready", "none"}
        BY <2>0, <2>1 DEF Call, TypeOK
      <4> QED
        BY <2>1, <4>1, <4>2 DEF Call, Paced, counters
    <3> QED
      BY <3>1, <3>2 DEF PauseInv, Foreground
  <2>2. ASSUME NEW s \in Slots, CallReturns(s) PROVE PauseInv'
    <3>1. /\ ~overlapped /\ Foreground(s) /\ \A q \in Slots : outcome'[q] # "running"
          /\ \A q \in Slots, p \in Runners : exec[q][p] \notin {"asked", "checking"}
      BY <2>0, <2>2 DEF CallReturns, PauseInv, Foreground, TypeOK, Waiting
    <3>2. ASSUME NEW q \in Slots, NEW p \in Runners PROVE Paced(q, p)'
      <4>1. Paced(s, p)
        BY <3>1 DEF PauseInv
      <4> QED
        BY <2>2, <3>1, <4>1 DEF CallReturns, Paced, counters
    <3> QED
      BY <3>1, <3>2 DEF PauseInv, Foreground
  <2>3. ASSUME NEW s \in Slots, NEW r \in Runners, Execution(s, r) PROVE PauseInv'
    <3>1. UNCHANGED <<outcome, overlapped>>
      BY <2>3 DEF Execution, Ask, Skip, Checked, Succeeds, Errs, BadImplementation,
         TimesOut, AuthFails, Misused, Cancelled
    <3>2. /\ Foreground(s) /\ Paced(s, r)
          /\ \A q \in Slots : Foreground(q) => q = s
      BY <2>3, <3>1, ExecutionPaced
    <3>3. ASSUME NEW p \in Runners PROVE Paced(s, p)'
      <4>1. CASE p = r
        BY <2>0, <2>3, <3>2, <4>1, StepPaced
      <4>2. CASE p # r
        <5>1. Paced(s, p)
          BY <3>1, <3>2 DEF PauseInv
        <5> QED
          BY <2>0, <2>3, <4>2, <5>1, OthersKept DEF Paced
      <4> QED
        BY <4>1, <4>2
    <3> QED
      BY <3>1, <3>2, <3>3 DEF PauseInv, Foreground
  <2>4. CASE \E r \in Runners : Close(r) \/ Leave(r) \/ ReconnectFails(r)
    BY <2>4 DEF Close, Leave, ReconnectFails, PauseInv, Foreground, Paced, counters
  <2>5. ASSUME NEW r \in Runners, NEW n \in Runners, Reconnect(r, n) PROVE PauseInv'
    <3>1. UNCHANGED <<exec, outcome, overlapped>>
      BY <2>5 DEF Reconnect
    <3>2. \A q \in Slots : exec[q][n] \notin {"asked", "checking"}
      BY <2>0, <2>5 DEF Reconnect, Held
    <3>3. ASSUME NEW q \in Slots, NEW p \in Runners, Foreground(q) PROVE Paced(q, p)'
      <4>1. CASE p = n
        <5>1. cooldown'[p] = 0 /\ timeouts'[p] = 0 /\ missed'[p] = 0
          BY <2>0, <2>5, <4>1 DEF Reconnect, TypeOK
        <5> QED
          BY <3>1, <3>2, <4>1, <5>1 DEF Paced
      <4>2. CASE p # n
        <5>1. /\ cooldown'[p] = cooldown[p] /\ timeouts'[p] = timeouts[p]
              /\ missed'[p] = missed[p]
          BY <2>0, <2>5, <4>2 DEF Reconnect, TypeOK
        <5>2. Paced(q, p)
          BY <3>1, <3>3 DEF PauseInv
        <5> QED
          BY <3>1, <5>1, <5>2 DEF Paced
      <4> QED
        BY <4>1, <4>2
    <3> QED
      BY <3>1, <3>3 DEF PauseInv, Foreground
  <2>6. CASE UNCHANGED vars
    BY <2>6 DEF vars, PauseInv, Foreground, Paced, counters
  <2> QED
    BY <2>1, <2>2, <2>3, <2>4, <2>5, <2>6 DEF Next, Reconnected
<1> QED
  BY <1>1, <1>2, CallInvariant, PTL DEF Spec

-----------------------------------------------------------------------------
\* As long as no two calls are under way at once and with a limit other than one
\* timeout, one missed answer never condemns a model, for any limit and health check
\* interval, through reconnections and removals.
THEOREM SequentialFault ==
  ASSUME MaxTimeouts # 1 PROVE Spec => FaultNeedsTwoMisses
<1>1. CallInv /\ PauseInv /\ [Next]_vars =>
        [\A r \in Runners :
           "MULTIPLE_TIMEOUT" \in scheduled'[r] \ scheduled[r] /\ ~overlapped =>
             missed'[r] = 2]_vars
  <2> SUFFICES ASSUME CallInv, PauseInv, Next, ~overlapped, NEW p \in Runners,
                      "MULTIPLE_TIMEOUT" \in scheduled'[p] \ scheduled[p]
               PROVE  missed'[p] = 2
    OBVIOUS
  <2> USE DEF TypeOK, counters, Goto, Schedule, Codes, Answered
  <2>1. TypeOK
    BY DEF CallInv
  <2>2. PICK s \in Slots, r \in Runners : Execution(s, r)
    <3>1. ~\E r \in Runners : ReconnectFails(r)
      BY <2>1 DEF ReconnectFails
    <3>2. ~\E r, q \in Runners : Reconnect(r, q)
      BY <2>1 DEF Reconnect
    <3> QED
      BY <2>1, <3>1, <3>2 DEF Next, Call, CallReturns, Close, Leave, Reconnected
  <2>3. Paced(s, r)
    BY <2>2, ExecutionPaced
  <2>4. CASE Skip(s, r)
    <3>1. timeouts[p] + 1 > MaxTimeouts /\ MaxTimeouts > 1 /\ p = r /\ missed' = missed
      BY <2>1, <2>4, RunnerAssumption DEF Skip, TimedOut, Penalise, TooManyTimeouts
    <3>2. ~(missed[r] <= 1)
      BY <2>1, <2>3, <2>4, <3>1, FirstSkip, RunnerAssumption
    <3> QED
      BY <2>1, <3>1, <3>2
  <2>5. CASE TimesOut(s, r)
    <3>1. timeouts[p] + 1 > MaxTimeouts /\ MaxTimeouts > 1 /\ p = r
      BY <2>1, <2>5, RunnerAssumption DEF TimesOut, TimedOut, Penalise, TooManyTimeouts
    <3>2. missed[r] # 0
      BY <2>1, <2>3, <3>1, RunnerAssumption DEF Paced
    <3>3. missed' = [missed EXCEPT ![r] = IF @ < 2 THEN @ + 1 ELSE @]
      BY <2>5 DEF TimesOut, Miss
    <3> QED
      BY <2>1, <3>1, <3>2, <3>3
  <2>6. CASE Checked(s, r)
    <3>1. timeouts[p] + 1 > MaxTimeouts /\ MaxTimeouts > 1 /\ p = r /\ missed' = missed
      BY <2>1, <2>6, RunnerAssumption DEF Checked, Penalise, TooManyTimeouts
    <3>2. ~(missed[r] <= 1)
      BY <2>1, <2>3, <2>6, <3>1, RunnerAssumption DEF Checked, Paced
    <3> QED
      BY <2>1, <3>1, <3>2
  <2>7. CASE Errs(s, r) \/ BadImplementation(s, r) \/ AuthFails(s, r)
    BY <2>1, <2>7 DEF Errs, BadImplementation, AuthFails
  <2> QED
    BY <2>2, <2>4, <2>5, <2>6, <2>7 DEF Execution, Ask, Succeeds, Misused, Cancelled
<1> QED
  BY <1>1, PauseInvariant, PTL DEF Spec, FaultNeedsTwoMisses

\* The coordinator waits for a call before it makes the next.
Sequential == \A p, q \in Slots : p = q

\* Then no two calls are ever under way at once.
LEMMA NeverOverlapped == ASSUME Sequential PROVE Spec => []~overlapped
<1>1. Init => ~overlapped
  BY DEF Init
<1>2. ~overlapped /\ [Next]_vars => ~overlapped'
  <2> SUFFICES ASSUME ~overlapped, [Next]_vars PROVE ~overlapped'
    OBVIOUS
  <2>1. CASE \E s \in Slots, model_runs \in SUBSET Runners : Call(s, model_runs)
    BY <2>1 DEF Call, Sequential
  <2>2. CASE \E s \in Slots, r \in Runners : Execution(s, r)
    BY <2>2 DEF Execution, Ask, Skip, Checked, Succeeds, Errs, BadImplementation,
       TimesOut, AuthFails, Misused, Cancelled
  <2>3. CASE (\E s \in Slots : CallReturns(s)) \/ UNCHANGED vars
    BY <2>3 DEF CallReturns, vars
  <2>4. CASE \E r \in Runners : Close(r) \/ Leave(r) \/ Reconnected(r)
    BY <2>4 DEF Close, Leave, Reconnected, Reconnect, ReconnectFails
  <2> QED
    BY <2>1, <2>2, <2>3, <2>4 DEF Next
<1> QED
  BY <1>1, <1>2, PTL DEF Spec

\* Without overlapping calls, a success ends the pauses: the claim of the docstring
\* that overlapping ones break.
THEOREM SequentialPenaltiesCleared == ASSUME Sequential PROVE Spec => PenaltiesCleared
<1>1. CallInv /\ PauseInv /\ ~overlapped /\ [Next]_vars =>
        [\A s \in Slots, r \in Runners : exec[s][r] = "asked" /\ exec'[s][r] = "SUCCESS" =>
           failures'[r] = 0 /\ timeouts'[r] = 0 /\ cooldown'[r] <= 0]_vars
  <2> SUFFICES ASSUME CallInv, PauseInv, ~overlapped, Next,
                      NEW q \in Slots, NEW p \in Runners,
                      exec[q][p] = "asked", exec'[q][p] = "SUCCESS"
               PROVE  failures'[p] = 0 /\ timeouts'[p] = 0 /\ cooldown'[p] <= 0
    OBVIOUS
  <2> USE DEF CallInv, TypeOK, counters, Goto
  <2>1. PICK s \in Slots, r \in Runners : Execution(s, r)
    BY DEF Next, Call, CallReturns, Close, Leave, Reconnected, Reconnect, ReconnectFails
  <2>2. Succeeds(q, p) /\ s = q /\ r = p
    <3>1. s = q /\ r = p
      BY <2>1, OthersKept DEF Sequential
    <3> QED
      BY <2>1, <3>1 DEF Execution, Ask, Skip, Checked, Errs, BadImplementation, TimesOut,
         AuthFails, Misused, Cancelled, Penalise, TimedOut, Answered
  <2>3. Paced(q, p)
    BY <2>1, <2>2, ExecutionPaced
  <2> QED
    BY <2>2, <2>3, SMT DEF Succeeds, Paced, Answered
<1> QED
  BY <1>1, PauseInvariant, NeverOverlapped, PTL DEF Spec, PenaltiesCleared
=============================================================================
