-------------------------- MODULE ModelRunnerProofs --------------------------
(***************************************************************************)
(* Proofs about ModelRunner, for any keys, wallets, models and statements  *)
(* signed: the types, TrustedNode, that a runner implements the contract   *)
(* its cluster relies on, and that init() advances with every segment.     *)
(***************************************************************************)
EXTENDS ModelRunner, TLAPS

\* How the attempt under way, the await and the channels go together: the channels are
\* of an attempt, made after the probe of it, and a runner that is not closed has not
\* lost them.
AttemptInv ==
  /\ TypeOK
  /\ pc = "new" => attempt = 0 /\ ~closed
  /\ pc # "new" => attempt > 0
  /\ made <= attempt
  /\ pc = "probing" => mode = "secure" /\ made < attempt
  /\ pc \in {"connecting", "setup", "checking"} \/ mode # "secure" => made = attempt
  /\ pc = "checking" => mode # "secure"
  /\ pc = "backoff" => attempt < retry_attempts
  /\ channel = "none" <=> made = 0
  /\ ~closed => channel \in {"none", "open"}
  /\ mode = "secure" /\ made > 0 => tls_pub \in Keys
  /\ result = "none" <=> pc # "ended"

IInv == AttemptInv /\ TrustedNode

\* After an exception an attempt checks for TLS, backs off or ends init() without
\* success.
LEMMA ExceptEffect ==
  ASSUME TypeOK, NEW e \in Exceptions, Except(e)
  PROVE  \/ mode # "secure" /\ Goto("checking")
         \/ attempt < retry_attempts /\ Goto("backoff")
         \/ \E value \in Errors \cup Raised : End(value)
<1>1. CASE e \in {"AioRpcError", "TimeoutError"}
  BY <1>1 DEF Except, Backoff, Errors
<1>2. CASE e = "InvalidCoordinatorUsageError"
  BY <1>2 DEF Except, Raised
<1>3. CASE e \in {"AuthError", "TlsProbeError"}
  BY <1>3 DEF Except, Errors
<1>4. CASE e \in {"AttributeError", "ValueError", "UsageError"}
  BY <1>4 DEF Except, Backoff, Errors
<1> QED
  BY <1>1, <1>2, <1>3, <1>4 DEF Exceptions

\* A probe yields a key of a node or an exception.
LEMMA ProbeType ==
  ASSUME NEW peer \in Peers, NEW verify, NEW auth
  PROVE  FetchPeer(peer, verify, auth) \in Keys \cup Exceptions
  BY DEF FetchPeer, Peers, Exceptions

\* An answer that the interceptor lets pass carries a statement that the expected
\* wallet signed for the key, the model and the hotkey.
LEMMA VerifiedIsSigned ==
  ASSUME NEW headers \in Headers \cup {None}, NEW key,
         Intercept(headers, expected, key) = "verified"
  PROVE  \E s \in Issued : /\ s.wallet = expected.wallet
                           /\ s.cert_pub = key
                           /\ s.model_id = expected.model_id
                           /\ s.hotkey = expected.hotkey
<1>1. headers # None /\ VerifyDelegation(headers, expected, key) = "verified"
  BY DEF Intercept
<1>2. /\ headers.message \in Issued /\ headers.message.wallet = expected.wallet
      /\ headers.message.cert_pub = key
      /\ headers.message.model_id = expected.model_id
      /\ headers.message.hotkey = expected.hotkey
  BY <1>1 DEF VerifyDelegation, wallet_verify
<1> QED
  BY <1>2

\* What the Setup call comes to is a status or an exception.
LEMMA OutcomeType ==
  ASSUME NEW status \in Answers, NEW headers
  PROVE  Outcome(status, headers) \in
           Exceptions \cup {"SUCCESS", "BAD_IMPLEMENTATION", "other"}
  BY DEF Outcome, Intercept, VerifyDelegation, Answers, Exceptions

\* A step of init() that only moves on or ends in an error keeps the invariant.
LEMMA MoveIInv ==
  ASSUME IInv, pc \in Awaits, UNCHANGED <<mode, attempt, closed, channel, made, tls_pub>>,
         \/ made = attempt /\ Goto("setup")
         \/ made = attempt /\ mode # "secure" /\ Goto("checking")
         \/ attempt < retry_attempts /\ Goto("backoff")
         \/ \E value \in Errors \cup Raised : End(value)
  PROVE  IInv'
<1>1. /\ result' # "SUCCESS" /\ result' \in {"none"} \cup Errors \cup Raised
      /\ pc' \in {"setup", "checking", "backoff", "ended"}
      /\ result' = "none" <=> pc' # "ended"
  BY DEF Goto, End, IInv, AttemptInv, Errors, Raised, Awaits
<1>2. TypeOK'
  BY <1>1 DEF IInv, AttemptInv, TypeOK, Awaits
<1>3. AttemptInv'
  BY <1>1, <1>2 DEF IInv, AttemptInv, Goto, End, Awaits
<1>4. TrustedNode'
  BY <1>1 DEF TrustedNode
<1> QED
  BY <1>3, <1>4 DEF IInv

\* Making the channels of the attempt under way keeps the invariant.
LEMMA ConnectIInv ==
  ASSUME IInv, NEW n \in 1 .. retry_attempts, NEW key, Connect(n, key), attempt' = n,
         UNCHANGED <<mode, closed>>, pc \in Awaits \cup {"new"},
         IF mode = "secure" THEN key \in Keys ELSE key = None
  PROVE  IInv'
<1>1. /\ channel' = "open" /\ made' = n /\ tls_pub' = key
      /\ pc' = "connecting" /\ result' = result /\ result = "none"
  BY DEF Connect, Goto, IInv, AttemptInv, Awaits
<1>2. TypeOK'
  BY <1>1 DEF IInv, AttemptInv, TypeOK, Awaits
<1>3. AttemptInv'
  BY <1>1, <1>2 DEF IInv, AttemptInv, retry_attempts
<1>4. TrustedNode'
  BY <1>1 DEF TrustedNode
<1> QED
  BY <1>3, <1>4 DEF IInv

\* So does beginning an attempt, the first or the next.
LEMMA AttemptIInv ==
  ASSUME IInv, Start \/ NextAttempt
  PROVE  IInv'
<1>1. PICK n \in 1 .. retry_attempts :
        Attempt(n) /\ n = attempt + 1 /\ pc \in {"new", "backoff"}
  <2>1. attempt \in 0 .. retry_attempts - 1
    BY DEF Start, NextAttempt, IInv, AttemptInv, TypeOK, retry_attempts
  <2>2. Attempt(attempt + 1) /\ pc \in {"new", "backoff"}
    BY DEF Start, NextAttempt, IInv, AttemptInv
  <2> QED
    BY <2>1, <2>2 DEF retry_attempts
<1>2. CASE /\ closed /\ End("ABORTED")
           /\ UNCHANGED <<mode, attempt, closed, channel, made, tls_pub>>
  <2>1. pc = "backoff"
    BY <1>1, <1>2 DEF IInv, AttemptInv
  <2> QED
    BY <1>2, <2>1, MoveIInv DEF Awaits, Errors
<1>3. CASE /\ mode = "secure" /\ Goto("probing") /\ attempt' = n
           /\ UNCHANGED <<mode, closed, channel, made, tls_pub>>
  <2>1. TypeOK'
    BY <1>3 DEF IInv, AttemptInv, TypeOK, Awaits, Goto
  <2>2. result = "none" /\ result' = "none" /\ pc' = "probing"
    BY <1>1, <1>3 DEF IInv, AttemptInv, Goto
  <2>3. made < n
    BY <1>1 DEF IInv, AttemptInv, TypeOK
  <2>4. AttemptInv'
    <3>1. made' = made /\ made \in Nat /\ attempt' \in Nat \ {0} /\ made < attempt'
      BY <1>3, <2>3 DEF IInv, AttemptInv, TypeOK, retry_attempts
    <3>2. mode' = "secure" /\ mode = "secure" /\ UNCHANGED <<closed, channel, tls_pub>>
      BY <1>3
    <3> QED
      BY <2>1, <2>2, <3>1, <3>2 DEF IInv, AttemptInv
  <2>5. TrustedNode'
    BY <2>2 DEF TrustedNode
  <2> QED
    BY <2>4, <2>5 DEF IInv
<1>4. CASE mode # "secure" /\ Connect(n, None) /\ attempt' = n /\ UNCHANGED <<mode, closed>>
  BY <1>1, <1>4, ConnectIInv DEF Awaits
<1> QED
  BY <1>1, <1>2, <1>3, <1>4 DEF Attempt

\* So does the answer of a probe.
LEMMA ProbedIInv ==
  ASSUME IInv, NEW peer \in Peers, Probed(peer)
  PROVE  IInv'
<1> DEFINE key == FetchPeer(peer, TRUE, TRUE)
<1>1. /\ pc = "probing" /\ mode = "secure" /\ attempt \in 1 .. retry_attempts
      /\ UNCHANGED <<mode, attempt, closed>>
  BY DEF Probed, IInv, AttemptInv, TypeOK
<1>2. CASE key \in Keys /\ Connect(attempt, key)
  BY <1>1, <1>2, ConnectIInv DEF Awaits
<1>3. CASE key \notin Keys /\ Except(key) /\ UNCHANGED <<channel, made, tls_pub>>
  <2>1. key \in Exceptions
    BY <1>3, ProbeType
  <2> HIDE DEF key
  <2>2. TypeOK
    BY DEF IInv, AttemptInv
  <2>3. \/ attempt < retry_attempts /\ Goto("backoff")
        \/ \E value \in Errors \cup Raised : End(value)
    BY <1>1, <1>3, <2>1, <2>2, ExceptEffect
  <2> QED
    BY <1>1, <1>3, <2>3, MoveIInv DEF Awaits
<1> QED
  BY <1>2, <1>3 DEF Probed

\* So do the waits of an attempt that has its channels, and the check for TLS.
LEMMA WaitIInv ==
  ASSUME IInv, Connected \/ SetupCut \/ \E peer \in Peers : TlsChecked(peer)
  PROVE  IInv'
<1>1. /\ TypeOK /\ made = attempt /\ pc \in Awaits
      /\ UNCHANGED <<mode, attempt, closed, channel, made, tls_pub>>
  BY DEF Connected, SetupCut, TlsChecked, IInv, AttemptInv, Awaits
<1>2. \/ Goto("setup")
      \/ mode # "secure" /\ Goto("checking")
      \/ attempt < retry_attempts /\ Goto("backoff")
      \/ \E value \in Errors \cup Raised : End(value)
  <2>1. CASE Connected
    BY <1>1, <2>1, ExceptEffect DEF Connected, Exceptions
  <2>2. CASE SetupCut
    BY <1>1, <2>2, ExceptEffect DEF SetupCut, Exceptions, Raised
  <2>3. CASE \E peer \in Peers : TlsChecked(peer)
    BY <1>1, <2>3 DEF TlsChecked, Raised, Backoff, Errors
  <2> QED
    BY <2>1, <2>2, <2>3
<1> QED
  BY <1>1, <1>2, MoveIInv

\* So does the end of the Setup call: it succeeds only past the interceptor.
LEMMA SetupIInv ==
  ASSUME IInv, NEW status \in Answers, NEW headers \in Headers \cup {None},
         Setup(status, headers)
  PROVE  IInv'
<1> DEFINE outcome == Outcome(status, headers)
<1>1. /\ TypeOK /\ made = attempt /\ pc = "setup"
      /\ UNCHANGED <<mode, attempt, closed, channel, made, tls_pub>>
  BY DEF Setup, IInv, AttemptInv
<1>2. CASE outcome = "SUCCESS" /\ End("SUCCESS")
  <2>1. result' = "SUCCESS" /\ pc' = "ended"
    BY <1>2 DEF End
  <2>2. AttemptInv'
    <3>1. TypeOK'
      BY <1>1, <2>1 DEF TypeOK
    <3> QED
      BY <1>1, <2>1, <3>1 DEF IInv, AttemptInv
  <2>3. TrustedNode'
    <3>1. CASE mode = "secure"
      <4>1. Intercept(headers, expected, tls_pub) = "verified"
        BY <1>2, <3>1 DEF Outcome, Intercept, VerifyDelegation
      <4> QED
        BY <1>1, <4>1, VerifiedIsSigned DEF TrustedNode
    <3>2. CASE mode # "secure"
      BY <1>1, <3>2 DEF TrustedNode
    <3> QED
      BY <3>1, <3>2
  <2> QED
    BY <2>2, <2>3 DEF IInv
<1>3. CASE \/ outcome = "BAD_IMPLEMENTATION" /\ End("BAD_IMPLEMENTATION")
           \/ outcome = "other" /\ End("FAILED")
  BY <1>1, <1>3, MoveIInv DEF Awaits, Errors
<1>4. CASE outcome \in Exceptions /\ Except(outcome)
  <2> HIDE DEF outcome
  <2> QED
    BY <1>1, <1>4, ExceptEffect, MoveIInv DEF Awaits
<1> QED
  BY <1>2, <1>3, <1>4 DEF Setup

\* Closing disturbs no attempt: the channels it closes stay those of the attempt.
LEMMA CloseIInv ==
  ASSUME IInv, Close \/ Shut
  PROVE  IInv'
<1>1. /\ closed' \in BOOLEAN /\ (closed => closed')
      /\ channel' \in {"none", "open", "closing", "shut"}
      /\ channel' = "none" <=> channel = "none"
      /\ ~closed' => ~closed /\ channel' = channel
      /\ pc = "new" => closed' = closed
      /\ UNCHANGED <<mode, attempt, pc, made, tls_pub, result>>
  BY DEF Close, Shut, IInv, AttemptInv, TypeOK
<1>2. TypeOK'
  BY <1>1 DEF IInv, AttemptInv, TypeOK
<1>3. AttemptInv'
  BY <1>1, <1>2 DEF IInv, AttemptInv
<1>4. TrustedNode'
  BY <1>1 DEF IInv, TrustedNode
<1> QED
  BY <1>3, <1>4 DEF IInv

-----------------------------------------------------------------------------
\* The invariant of a runner through its attempts, whatever the peer at its address
\* does and whenever it is closed.
THEOREM RunnerInvariant == Spec => []IInv
<1>1. Init => IInv
  <2> SUFFICES ASSUME Init PROVE IInv
    OBVIOUS
  <2>1. TypeOK
    <3>1. closed \in BOOLEAN
      BY DEF Init
    <3> QED
      BY <3>1 DEF Init, TypeOK, retry_attempts
  <2>2. AttemptInv
    BY <2>1 DEF Init, AttemptInv
  <2>3. TrustedNode
    BY DEF Init, TrustedNode
  <2> QED
    BY <2>2, <2>3 DEF IInv
<1>2. IInv /\ [Next]_vars => IInv'
  <2> SUFFICES ASSUME IInv, [Next]_vars  PROVE IInv'
    OBVIOUS
  <2>1. CASE Next
    BY <2>1, AttemptIInv, ProbedIInv, WaitIInv, SetupIInv, CloseIInv DEF Next, InitStep
  <2>2. CASE UNCHANGED vars
    BY <2>2 DEF vars, IInv, AttemptInv, TypeOK, TrustedNode
  <2> QED
    BY <2>1, <2>2
<1> QED
  BY <1>1, <1>2, PTL DEF Spec

\* The types are kept; in particular no runner makes more than retry_attempts attempts.
THEOREM RunnerTypesCorrect == Spec => []TypeOK
<1>1. IInv => TypeOK
  BY DEF IInv, AttemptInv
<1> QED
  BY <1>1, RunnerInvariant, PTL

\* Whatever answers at the address, in whichever order of probes, retries and closes,
\* a secure runner is initialized only with a node the expected wallet signed for.
THEOREM SecureNodeTrusted == Spec => []TrustedNode
<1>1. IInv => TrustedNode
  BY DEF IInv
<1> QED
  BY <1>1, RunnerInvariant, PTL

-----------------------------------------------------------------------------
\* The phase of a runner, by the await at which init() stands.
LEMMA PhaseOf ==
  ASSUME AttemptInv
  PROVE  /\ pc = "new" => Phase = "new"
         /\ pc = "probing" => Phase = "probe"
         /\ pc \in {"connecting", "setup", "checking"} => Phase = "init"
         /\ pc = "backoff" => Phase = IF made = attempt THEN "init" ELSE "probe"
         /\ pc = "ended" => Phase = "left"
         /\ mode # "secure" => Phase # "probe"
  BY DEF AttemptInv, TypeOK, Awaits, Phase

\* A step of init() that leaves the channels alone stutters in the contract, or ends.
LEMMA MoveImplements ==
  ASSUME AttemptInv, pc \in Awaits,
         UNCHANGED <<mode, attempt, closed, channel, made, tls_pub>>,
         \/ made = attempt /\ Goto("setup")
         \/ made = attempt /\ mode # "secure" /\ Goto("checking")
         \/ attempt < retry_attempts /\ Goto("backoff")
         \/ \E value \in Errors \cup Raised : End(value)
  PROVE  [Contract!Next]_(Contract!vars)
<1>1. CASE \E value \in Errors \cup Raised : End(value)
  <2>1. Phase \in {"probe", "init"} /\ result = "none"
    BY DEF AttemptInv, Phase, Awaits
  <2>2. pc' = "ended" /\ result' # "SUCCESS"
    BY <1>1 DEF End, Errors, Raised
  <2>3. Phase' = "left"
    BY <2>2 DEF Phase
  <2>4. Contract!Fail
    BY <2>1, <2>2, <2>3 DEF Contract!Fail
  <2> QED
    BY <2>4 DEF Contract!Next
<1>2. CASE ~ \E value \in Errors \cup Raised : End(value)
  <2>1. /\ UNCHANGED result
        /\ pc' \in {"setup", "checking", "backoff"}
        /\ pc' \in {"setup", "checking"} => made = attempt
    BY <1>2 DEF Goto
  <2>2. Phase' = Phase
    BY <2>1 DEF AttemptInv, Phase, Awaits
  <2> QED
    BY <2>1, <2>2 DEF Contract!vars
<1> QED
  BY <1>1, <1>2

\* The first attempt begins the contract; a later one is a new probe after a dial, or
\* a stutter; a closed runner fails.
LEMMA AttemptImplements ==
  ASSUME AttemptInv, Start \/ NextAttempt
  PROVE  [Contract!Next]_(Contract!vars)
<1>1. PICK n : /\ Attempt(n) /\ n = attempt + 1
               /\ (pc = "new" /\ n = 1) \/ pc = "backoff"
  BY DEF Start, NextAttempt, AttemptInv, TypeOK
<1>2. /\ result = "none" /\ attempt \in Nat /\ made \in Nat /\ made < n /\ n \in Nat \ {0}
  BY <1>1 DEF AttemptInv, TypeOK, retry_attempts
<1>3. CASE /\ closed /\ End("ABORTED")
           /\ UNCHANGED <<mode, attempt, closed, channel, made, tls_pub>>
  <2>1. pc = "backoff"
    BY <1>1, <1>3 DEF AttemptInv
  <2> QED
    BY <1>3, <2>1, MoveImplements DEF Awaits, Errors
<1>4. CASE /\ ~closed /\ mode = "secure" /\ Goto("probing") /\ attempt' = n
           /\ UNCHANGED <<mode, closed, channel, made, tls_pub>>
  <2>1. /\ pc' = "probing" /\ mode' = "secure" /\ made' # attempt' /\ result' = "none"
        /\ UNCHANGED <<mode, closed, channel>>
    BY <1>2, <1>4 DEF Goto
  <2>2. Phase' = "probe"
    BY <2>1 DEF Phase
  <2>3. CASE Phase = "new"
    <3>1. Contract!Begin
      BY <1>2, <1>4, <2>1, <2>2, <2>3 DEF Contract!Begin
    <3> QED
      BY <3>1 DEF Contract!Next
  <2>4. CASE Phase = "init"
    <3>1. Contract!Retry
      BY <1>2, <1>4, <2>1, <2>2, <2>4 DEF Contract!Retry
    <3> QED
      BY <3>1 DEF Contract!Next
  <2>5. CASE Phase = "probe"
    BY <1>2, <1>4, <2>1, <2>2, <2>5 DEF Contract!vars
  <2>6. Phase \in {"new", "init", "probe"}
    BY <1>1, PhaseOf
  <2> QED
    BY <2>3, <2>4, <2>5, <2>6
<1>5. CASE /\ ~closed /\ mode # "secure" /\ Connect(n, None) /\ attempt' = n
           /\ UNCHANGED <<mode, closed>>
  <2>1. /\ pc' = "connecting" /\ mode' # "secure" /\ channel' = "open" /\ result' = "none"
        /\ UNCHANGED <<mode, closed>>
    BY <1>2, <1>5 DEF Connect, Goto
  <2>2. Phase' = "init"
    BY <2>1 DEF Phase
  <2>3. CASE pc = "new"
    <3>1. Phase = "new"
      BY <2>3, PhaseOf
    <3>2. Contract!Begin
      BY <1>2, <1>5, <2>1, <2>2, <3>1 DEF Contract!Begin
    <3> QED
      BY <3>2 DEF Contract!Next
  <2>4. CASE pc = "backoff"
    <3>1. made = attempt /\ channel = "open" /\ Phase = "init"
      BY <1>2, <1>5, <2>4, PhaseOf DEF AttemptInv
    <3> QED
      BY <1>2, <2>1, <2>2, <3>1 DEF Contract!vars
  <2> QED
    BY <1>1, <2>3, <2>4
<1> QED
  BY <1>1, <1>3, <1>4, <1>5 DEF Attempt

\* The answer of a probe is a dial, be the runner closed or not, or no step of the
\* contract, or its failure.
LEMMA ProbedImplements ==
  ASSUME AttemptInv, NEW peer \in Peers, Probed(peer)
  PROVE  [Contract!Next]_(Contract!vars)
<1> DEFINE key == FetchPeer(peer, TRUE, TRUE)
<1>1. /\ pc = "probing" /\ mode = "secure" /\ result = "none" /\ TypeOK
      /\ UNCHANGED <<mode, attempt, closed>>
  BY DEF Probed, AttemptInv
<1>2. CASE key \in Keys /\ Connect(attempt, key)
  <2>1. /\ pc' = "connecting" /\ channel' = "open" /\ result' = "none"
        /\ made' = attempt'
    BY <1>1, <1>2 DEF Connect, Goto
  <2>2. Phase' = "init" /\ Phase = "probe"
    BY <1>1, <2>1, PhaseOf DEF Phase
  <2>3. Contract!Dial
    BY <1>1, <2>1, <2>2 DEF Contract!Dial
  <2> QED
    BY <2>3 DEF Contract!Next
<1>3. CASE key \notin Keys /\ Except(key) /\ UNCHANGED <<channel, made, tls_pub>>
  <2>1. key \in Exceptions
    BY <1>3, ProbeType
  <2> HIDE DEF key
  <2>2. \/ attempt < retry_attempts /\ Goto("backoff")
        \/ \E value \in Errors \cup Raised : End(value)
    BY <1>1, <1>3, <2>1, ExceptEffect
  <2> QED
    BY <1>1, <1>3, <2>2, MoveImplements DEF Awaits
<1> QED
  BY <1>2, <1>3 DEF Probed

\* The waits move on within a phase or fail.
LEMMA WaitImplements ==
  ASSUME AttemptInv, Connected \/ SetupCut \/ \E peer \in Peers : TlsChecked(peer)
  PROVE  [Contract!Next]_(Contract!vars)
<1>1. /\ TypeOK /\ made = attempt /\ pc \in Awaits
      /\ UNCHANGED <<mode, attempt, closed, channel, made, tls_pub>>
  BY DEF Connected, SetupCut, TlsChecked, AttemptInv, Awaits
<1>2. \/ Goto("setup")
      \/ mode # "secure" /\ Goto("checking")
      \/ attempt < retry_attempts /\ Goto("backoff")
      \/ \E value \in Errors \cup Raised : End(value)
  <2>1. CASE Connected
    BY <1>1, <2>1, ExceptEffect DEF Connected, Exceptions
  <2>2. CASE SetupCut
    BY <1>1, <2>2, ExceptEffect DEF SetupCut, Exceptions, Raised
  <2>3. CASE \E peer \in Peers : TlsChecked(peer)
    BY <1>1, <2>3 DEF TlsChecked, Raised, Backoff, Errors
  <2> QED
    BY <2>1, <2>2, <2>3
<1> QED
  BY <1>1, <1>2, MoveImplements

\* Setup succeeds in the contract, moves on or fails.
LEMMA SetupImplements ==
  ASSUME AttemptInv, NEW status \in Answers, NEW headers \in Headers \cup {None},
         Setup(status, headers)
  PROVE  [Contract!Next]_(Contract!vars)
<1> DEFINE outcome == Outcome(status, headers)
<1>1. /\ TypeOK /\ made = attempt /\ pc = "setup" /\ channel \in {"open", "closing"}
      /\ UNCHANGED <<mode, attempt, closed, channel, made, tls_pub>>
  BY DEF Setup, AttemptInv, TypeOK
<1>2. CASE outcome = "SUCCESS" /\ End("SUCCESS")
  <2>1. result' = "SUCCESS" /\ pc' = "ended"
    BY <1>2 DEF End
  <2>2. Phase = "init" /\ Phase' = "left"
    BY <1>1, <2>1, PhaseOf DEF Phase
  <2>3. Contract!Succeed
    BY <1>1, <2>1, <2>2 DEF Contract!Succeed
  <2> QED
    BY <2>3 DEF Contract!Next
<1>3. CASE \/ outcome = "BAD_IMPLEMENTATION" /\ End("BAD_IMPLEMENTATION")
           \/ outcome = "other" /\ End("FAILED")
  BY <1>1, <1>3, MoveImplements DEF Awaits, Errors
<1>4. CASE outcome \in Exceptions /\ Except(outcome)
  <2> HIDE DEF outcome
  <2> QED
    BY <1>1, <1>4, ExceptEffect, MoveImplements DEF Awaits
<1> QED
  BY <1>2, <1>3, <1>4 DEF Setup

\* close() is the contract's.
LEMMA CloseImplements ==
  ASSUME AttemptInv, Close \/ Shut
  PROVE  [Contract!Next]_(Contract!vars)
<1>1. Phase' = Phase /\ UNCHANGED <<mode, result>>
  BY DEF Close, Shut, Phase
<1>2. CASE Close
  <2>1. Phase # "new"
    BY <1>2 DEF Close, Phase
  <2>2. Contract!Close
    BY <1>1, <1>2, <2>1 DEF Close, Contract!Close
  <2> QED
    BY <2>2 DEF Contract!Next
<1>3. CASE Shut
  <2>1. Contract!Shut
    BY <1>1, <1>3 DEF Shut, Contract!Shut
  <2> QED
    BY <2>1 DEF Contract!Next
<1> QED
  BY <1>2, <1>3

\* A runner in any of its modes, through all its retries and exceptions, does what its
\* cluster relies on: the detailed specification implements the contract.
THEOREM RunnerImplementsContract == Spec => ImplementsContract
<1>1. Init => Contract!Init
  BY DEF Init, Contract!Init, Phase
<1>2. AttemptInv /\ [Next]_vars => [Contract!Next]_(Contract!vars)
  <2> SUFFICES ASSUME AttemptInv, [Next]_vars  PROVE [Contract!Next]_(Contract!vars)
    OBVIOUS
  <2>1. CASE Next
    BY <2>1, AttemptImplements, ProbedImplements, WaitImplements, SetupImplements,
       CloseImplements
    DEF Next, InitStep
  <2>2. CASE UNCHANGED vars
    BY <2>2 DEF vars, Contract!vars, Phase
  <2> QED
    BY <2>1, <2>2
<1>3. IInv => AttemptInv
  BY DEF IInv
<1> QED
  BY <1>1, <1>2, <1>3, RunnerInvariant, PTL DEF Spec, ImplementsContract, Contract!Spec

-----------------------------------------------------------------------------
\* What is left of init() at each await: always something until it ends.
LEMMA SegmentsLeftAt ==
  ASSUME NEW n \in 0 .. retry_attempts
  PROVE  /\ SegmentsLeft("ended", n) = 0
         /\ SegmentsLeft("probing", n) = 5 * (5 - n) + 5
         /\ SegmentsLeft("connecting", n) = 5 * (5 - n) + 4
         /\ SegmentsLeft("setup", n) = 5 * (5 - n) + 3
         /\ SegmentsLeft("checking", n) = 5 * (5 - n) + 2
         /\ SegmentsLeft("new", n) = 5 * (5 - n) + 1
         /\ SegmentsLeft("backoff", n) = 5 * (5 - n) + 1
  BY DEF SegmentsLeft, retry_attempts

\* A segment of init() ends it, goes on to a later await of the attempt, or begins the
\* next one.
LEMMA SegmentEffect ==
  ASSUME AttemptInv, InitStep
  PROVE  /\ pc # "ended"
         /\ \/ pc' = "ended"
            \/ /\ attempt' = attempt + 1 /\ pc \in {"new", "backoff"}
               /\ pc' \in {"probing", "connecting"}
            \/ /\ attempt' = attempt
               /\ \/ pc = "probing" /\ pc' \in {"connecting", "backoff"}
                  \/ pc = "connecting" /\ pc' \in {"setup", "checking", "backoff"}
                  \/ pc = "setup" /\ pc' \in {"checking", "backoff"}
                  \/ pc = "checking" /\ pc' = "backoff"
<1> USE DEF Goto, End
<1>1. TypeOK
  BY DEF AttemptInv
<1>2. \A e \in Exceptions : Except(e) =>
        pc' \in {"ended", "backoff"} \/ (pc' = "checking" /\ mode # "secure")
  BY <1>1, ExceptEffect
<1>3. CASE Start \/ NextAttempt
  BY <1>3 DEF Start, NextAttempt, Attempt, Connect, AttemptInv
<1>4. CASE Connected
  BY <1>2, <1>4 DEF Connected, Exceptions
<1>5. CASE SetupCut
  BY <1>2, <1>5 DEF SetupCut, Exceptions
<1>6. ASSUME NEW peer \in Peers, Probed(peer)
      PROVE  pc = "probing" /\ attempt' = attempt /\ pc' \in {"connecting", "backoff", "ended"}
  <2>1. FetchPeer(peer, TRUE, TRUE) \in Keys \cup Exceptions
    BY ProbeType
  <2>2. mode = "secure"
    BY <1>6 DEF Probed, AttemptInv
  <2> QED
    BY <1>2, <1>6, <2>1, <2>2 DEF Probed, Connect
<1>7. CASE \E peer \in Peers : TlsChecked(peer)
  BY <1>7 DEF TlsChecked, Backoff
<1>8. CASE \E status \in Answers, headers \in Headers \cup {None} : Setup(status, headers)
  BY <1>2, <1>8 DEF Setup
<1> QED
  BY <1>3, <1>4, <1>5, <1>6, <1>7, <1>8 DEF InitStep

\* Whatever fails, and whenever it is closed, init() never goes in circles: it takes at
\* most 26 segments.
THEOREM InitAlwaysAdvances == Spec => InitAdvances
<1>1. IInv /\ IInv' /\ [Next]_vars =>
        [InitStep => SegmentsLeft(pc', attempt') < SegmentsLeft(pc, attempt)]_vars
  <2> SUFFICES ASSUME AttemptInv, AttemptInv', InitStep
               PROVE  SegmentsLeft(pc', attempt') < SegmentsLeft(pc, attempt)
    BY DEF IInv
  <2>1. /\ attempt \in 0 .. retry_attempts /\ attempt' \in 0 .. retry_attempts
        /\ pc \in {"new", "ended"} \cup Awaits
    BY DEF AttemptInv, TypeOK
  <2> QED
    BY <2>1, SegmentsLeftAt, SegmentEffect DEF Awaits, retry_attempts
<1> QED
  BY <1>1, RunnerInvariant, PTL DEF Spec, InitAdvances
=============================================================================
