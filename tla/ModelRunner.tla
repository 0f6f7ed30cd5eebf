---------------------------- MODULE ModelRunner ----------------------------
(***************************************************************************)
(* One runner: init() and close() of ModelRunner (model_runner.py) with    *)
(* the setup() of DynamicSubclassModelRunner, in its three modes.  init()  *)
(* makes up to retry_attempts attempts; each action is its segment between *)
(* two awaits.  close() is called by other tasks of the loop at any await. *)
(* Definitions named Faulty... are no part of the model: each is a         *)
(* plausible defect of the definition after it, and breaks a property.     *)
(***************************************************************************)
EXTENDS Integers, Security

CONSTANTS expected  \* what the interceptor checks: infos' wallet and hotkey, model_id

retry_attempts == 5

ASSUME RunnerAssumption == expected \in [wallet : Wallets, model_id : ModelIds,
                                         hotkey : Hotkeys]

VARIABLES
  mode,     \* "insecure", "secure" (secure_credentials) or "gateway"
  attempt,  \* the attempt under way
  pc,       \* the await at which init() stands
  closed,
  channel,  \* the state of the two channels the runner holds
  made,     \* the attempt that made them
  tls_pub,  \* the key they are pinned to and their interceptor compares with
  result    \* what init() returned or raised

vars == <<mode, attempt, pc, closed, channel, made, tls_pub, result>>

Errors == {"GRPC_CONNECTION_FAILED", "FAILED", "BAD_IMPLEMENTATION", "ABORTED",
           "AUTH_ERROR"}
Raised == {"InvalidCoordinatorUsageError", "ValueError", "CancelledError"}
Awaits == {"probing", "connecting", "setup", "checking", "backoff"}

TypeOK ==
  /\ mode \in {"insecure", "secure", "gateway"}
  /\ attempt \in 0 .. retry_attempts
  /\ pc \in {"new", "ended"} \cup Awaits
  /\ closed \in BOOLEAN
  /\ channel \in {"none", "open", "closing", "shut"}
  /\ made \in 0 .. retry_attempts
  /\ tls_pub \in Keys \cup {None}
  /\ result \in {"none", "SUCCESS"} \cup Errors \cup Raised

Init ==
  /\ mode \in {"insecure", "secure", "gateway"}
  /\ attempt = 0
  /\ pc = "new"
  /\ closed = FALSE
  /\ channel = "none"
  /\ made = 0
  /\ tls_pub = None
  /\ result = "none"

-----------------------------------------------------------------------------
Goto(await) == pc' = await /\ UNCHANGED result
End(value) == pc' = "ended" /\ result' = value

\* Defect: one attempt too many.
FaultyBackoff ==
  IF attempt <= retry_attempts THEN Goto("backoff") ELSE End("GRPC_CONNECTION_FAILED")

\* The lines after the try statement.
Backoff ==
  IF attempt < retry_attempts THEN Goto("backoff") ELSE End("GRPC_CONNECTION_FAILED")

\* The except clauses of an attempt.
Except(e) ==
  CASE e \in {"AioRpcError", "TimeoutError"} ->
         IF mode = "secure" THEN Backoff ELSE Goto("checking")
    [] e = "InvalidCoordinatorUsageError" -> End(e)
    [] e \in {"AuthError", "TlsProbeError"} -> End("AUTH_ERROR")
    [] OTHER -> IF closed THEN End("ABORTED") ELSE Backoff

\* _connect_*_channels, once the key is known.
Connect(n, key) ==
  /\ channel' = "open"
  /\ made' = n
  /\ tls_pub' = key
  /\ Goto("connecting")

\* Defect: `closed' is not read before an attempt.
FaultyAttempt(n) ==
  /\ attempt' = n
  /\ \/ mode = "secure" /\ Goto("probing") /\ UNCHANGED <<channel, made, tls_pub>>
     \/ mode # "secure" /\ Connect(n, None)
  /\ UNCHANGED <<mode, closed>>

\* The head of the loop and the first await of an attempt.
Attempt(n) ==
  /\ \/ closed /\ End("ABORTED") /\ UNCHANGED <<attempt, channel, made, tls_pub>>
     \/ /\ ~closed
        /\ attempt' = n
        /\ \/ mode = "secure" /\ Goto("probing") /\ UNCHANGED <<channel, made, tls_pub>>
           \/ mode # "secure" /\ Connect(n, None)
  /\ UNCHANGED <<mode, closed>>

Start == pc = "new" /\ Attempt(1)
NextAttempt == pc = "backoff" /\ Attempt(attempt + 1)

\* The TLS probe of _connect_secure_channels: `closed' is not read after it.
Probed(peer) ==
  /\ pc = "probing"
  /\ LET key == FetchPeer(peer, TRUE, TRUE) IN
       \/ key \in Keys /\ Connect(attempt, key)
       \/ key \notin Keys /\ Except(key) /\ UNCHANGED <<channel, made, tls_pub>>
  /\ UNCHANGED <<mode, attempt, closed>>

\* Both channels are ready, or ten seconds are over, or they are closed.
Connected ==
  /\ pc = "connecting"
  /\ \/ Goto("setup")
     \/ Except("TimeoutError")
     \/ channel # "open" /\ Except("UsageError")
  /\ UNCHANGED <<mode, attempt, closed, channel, made, tls_pub>>

\* What the Setup call raises, or the status the node answers.
Outcome(status, headers) ==
  LET verdict == Intercept(headers, expected, tls_pub) IN
  IF mode = "secure" /\ verdict # "verified" THEN verdict ELSE status

Setup(status, headers) ==
  /\ pc = "setup"
  /\ channel # "shut"
  /\ LET outcome == Outcome(status, headers) IN
       \/ outcome = "SUCCESS" /\ End("SUCCESS")
       \/ outcome = "BAD_IMPLEMENTATION" /\ End("BAD_IMPLEMENTATION")
       \/ outcome = "other" /\ End("FAILED")
       \/ outcome \in Exceptions /\ Except(outcome)
  /\ UNCHANGED <<mode, attempt, closed, channel, made, tls_pub>>

\* The close of the channel cancels the call, which no except clause catches, or
\* comes before it.
SetupCut ==
  /\ pc = "setup"
  /\ channel # "open"
  /\ End("CancelledError") \/ Except("UsageError")
  /\ UNCHANGED <<mode, attempt, closed, channel, made, tls_pub>>

\* Defect: the node is waited for again, without counting an attempt.
FaultyTlsChecked(peer) ==
  /\ pc = "checking"
  /\ \/ IsTls(peer) /\ End("InvalidCoordinatorUsageError")
     \/ ~IsTls(peer) /\ Goto("connecting")
  /\ UNCHANGED <<mode, attempt, closed, channel, made, tls_pub>>

\* is_tls_connection in the handler of a timeout: a node that speaks TLS is taken
\* for one in secure mode, in gateway mode too.
TlsChecked(peer) ==
  /\ pc = "checking"
  /\ \/ IsTls(peer) /\ End("InvalidCoordinatorUsageError")
     \/ FetchPeer(peer, FALSE, FALSE) = "ValueError" /\ End("ValueError")
     \/ FetchPeer(peer, FALSE, FALSE) \in {"TimeoutError", "TlsProbeError"} /\ Backoff
  /\ UNCHANGED <<mode, attempt, closed, channel, made, tls_pub>>

\* close() up to its await; the cluster knows the runner once init() has begun.
Close ==
  /\ pc # "new"
  /\ closed' = TRUE
  /\ channel' = IF channel = "open" THEN "closing" ELSE channel
  /\ UNCHANGED <<mode, attempt, pc, made, tls_pub, result>>

Shut ==
  /\ channel = "closing"
  /\ channel' = "shut"
  /\ UNCHANGED <<mode, attempt, pc, closed, made, tls_pub, result>>

Answers == {"SUCCESS", "BAD_IMPLEMENTATION", "other", "AioRpcError",
            "InvalidCoordinatorUsageError"}

InitStep ==
  \/ Start \/ NextAttempt \/ Connected \/ SetupCut
  \/ \E peer \in Peers : Probed(peer) \/ TlsChecked(peer)
  \/ \E status \in Answers, headers \in Headers \cup {None} : Setup(status, headers)

Next == InitStep \/ Close \/ Shut

Spec == Init /\ [][Next]_vars

\* The probe and the channels have timeouts, the backoff ends, and the node is
\* taken to answer Setup, which has none.
FairSpec == Spec /\ WF_vars(InitStep)

-----------------------------------------------------------------------------
(***************************************************************************)
(* Properties.                                                             *)
(***************************************************************************)

\* init() has dialled in this attempt, or never probes.
Phase == IF pc = "new" THEN "new"
         ELSE IF pc = "ended" THEN "left"
         ELSE IF mode = "secure" /\ made # attempt THEN "probe"
         ELSE "init"

Contract == INSTANCE RunnerContract WITH
  probes <- mode = "secure", phase <- Phase, initialized <- result = "SUCCESS"

\* Through all retries and exceptions a runner does what the cluster relies on: a
\* closed runner begins no new attempt, only the answer of a probe under way still
\* opens a channel, and success needs a channel that is not shut.
ImplementsContract == Contract!Spec

\* Every init() ends, however often it has to retry and whenever it is closed.
InitReturns == Contract!Returns

\* The segments init() has left at most, at an await of its n-th attempt.
SegmentsLeft(await, n) ==
  IF await = "ended" THEN 0
  ELSE 5 * (retry_attempts - n)
       + CASE await = "probing" -> 5 [] await = "connecting" -> 4 [] await = "setup" -> 3
           [] await = "checking" -> 2 [] await \in {"new", "backoff"} -> 1

\* init() never goes in circles: whatever fails, and in whichever order it is closed,
\* each of its segments brings the end nearer, so that it takes at most 26.
InitAdvances ==
  [][InitStep => SegmentsLeft(pc', attempt') < SegmentsLeft(pc, attempt)]_vars

\* A secure runner that is initialized talks to a node for whose key, the one
\* probed in this very attempt, the expected wallet signed a delegation of this
\* model and hotkey.
TrustedNode ==
  mode = "secure" /\ result = "SUCCESS" =>
    /\ made = attempt
    /\ \E s \in Issued : /\ s.wallet = expected.wallet
                         /\ s.cert_pub = tls_pub
                         /\ s.model_id = expected.model_id
                         /\ s.hotkey = expected.hotkey
=============================================================================
