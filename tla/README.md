# Verification of model-runner-client

TLA+ models, TLC checks and TLAPS proofs for the Python library in this repository: the
client with which a coordinator follows the models of its crunch over a WebSocket and calls
all of them concurrently over gRPC. Everything runs on one asyncio loop; what makes it hard
is that nearly every method awaits, and the registry may have changed when it comes back.

## 1. The system

| Component | State | Operations | Interacts with |
|---|---|---|---|
| `ModelCluster` (`model_cluster.py`) | `models_run`, `pending_model_runs` | `handle_event` (`init`, `update`), `update_model_runs`, `add_model_runner`, `remove_model_runner`, `process_failure`, `reconnect_model_runner` | is called by the WebSocket listener and by tasks of `ModelConcurrentRunner`; builds, inits and closes `ModelRunner`s; reports through `WebsocketClient` |
| `ModelRunner` (`model_runners/model_runner.py`) | `closed`, two gRPC channels, counters and `cooldown_calls_remaining` | `init` (five attempts), `close`, `should_skip_for_timeout_reason`, `register_*`, `reset_*` | TLS probe, gRPC, health service |
| `ModelConcurrentRunner` (`model_concurrent_runner.py`) | none of its own | `_execute_concurrent_method`, `_execute_model_method_with_timeout` | reads the registry, changes the counters of runners, `create_task`s failures and reconnections |
| `DynamicSubclass*` | the stub | `setup`, `call` | the answers of the model node become results, error types or exceptions |
| `WebsocketClient` (`websocket_client.py`) | `websocket`, `listening`, `message_queue` | `connect`, `init`, `listen`, `send_message`, `_send_pending_messages`, `disconnect` | calls `handle_event`, one event at a time |
| security (`wallet_gelegation.py`, `grpc_auth_interceptor.py`, `tls_peer_key.py`, gateway, credentials) | expected keys of a channel | `verify_wallet_delegation`, the interceptors, `fetch_peer_rsa_spki_mtls` | wrap each gRPC call; `AuthError` reaches `init` and calls |
| `datatype_transformer.py` | none | `encode_data`, `decode_data`, `detect_data_type` | argument and result values |

What makes each correct:

* **ModelCluster**: after the events and tasks have settled, the registry is what the
  orchestrator asked for; no entry holds a closed runner, no connected runner is outside it,
  a live entry is never deleted by a late task, a failed runner leaves, events go on being handled.
* **ModelRunner**: `init` ends, begins no attempt once it is closed, and succeeds only on a channel that is
  not shut.
* **ModelConcurrentRunner**: a call returns its results; pauses end; a model is
  condemned on enough evidence, and a faulty one is condemned or connected anew at last.
* **WebsocketClient**: every report is sent at last and held in one place until then; events lost
  with a connection are made good by the next.
* **security**: `init` succeeds only with a node for whose key, the one on the wire, the expected wallet
  signed a delegation of this model and hotkey.

Hard behaviours: interleavings at every `await` of `ModelCluster`; a `gather()` that one child
leaves with an exception while the others run on; a runner closed during its `init`; overlapping
calls that share counters; a skipped call that counts as a timeout; stale settings in a
reconnection; a connection that is lost while reports are sent, queued or flushed; a `close()` at any
await of `init`. `PROJECT.json` lists each hazard at its line.

## 2. Modules

| Module | What it is |
|---|---|
| `ModelCluster` | the registry, with its runners and the tasks calls start on it |
| `ModelClusterInv` | its inductive invariants, and what it means that events are alone |
| `ModelClusterProofs`, `EventProofs` | theorems about it: for any tasks and calls; for events alone |
| `RunnerContract` | what the cluster relies on of one runner: the abstract specification |
| `ModelRunner` | one runner in detail: attempts, modes, probes, exceptions; implements `RunnerContract` |
| `Security` | the TLS probe, the wallet delegation and the interceptor, as operators `ModelRunner` uses |
| `ModelRunnerProofs`, `ContractProofs` | `ModelRunner`, and each runner of `ModelCluster`, implement `RunnerContract` |
| `ConcurrentRunner`, `ConcurrentRunnerProofs` | calls, the counters and pauses of runners; theorems |
| `WebsocketClient`, `WebsocketProofs` | the connection to the orchestrator, its events and the reports; theorems |
| `MC...` | values of the constants for TLC |

How they compose. `ModelCluster` keeps of a runner what other tasks of the loop can see of it, and
leaves the rest to nondeterministic choices (`Retry`, `InitFailed`, ...). `RunnerContract` joins the two
levels: every runner inside `ModelCluster` behaves as it says (`RunnersKeepContract`), and so does
`ModelRunner` with all its attempts, modes and exceptions (`ImplementsContract`). So the
detail that `ModelRunner` adds cannot break what the cluster assumes. That an `init()` returns is checked there,
as `InitReturns`, under the assumption that the node answers `Setup`; the cluster does not assume it, and
`EventHandled` says what depends on it. `ConcurrentRunner` and `ModelCluster` share `Spawn`: the
former says when a task is started for a runner, the latter what it does, for tasks started at any time.
`WebsocketClient` hands events to a handler that ends, fails or is cancelled (`Handled`,
`HandlerRaises`), which is how `ModelCluster`'s handler ends (`EventHandled`, `HandlerLeft`).

Definitions named `Faulty...` (and `DeafRemoveEnd`, `UncountedIterate`) are no part of a model. Each is a plausible defect of the
definition after it, with which one property fails; they show that the properties bite.

### ModelCluster

The loop runs a coroutine undisturbed between two suspending awaits, so **one action is one such
segment**, taken whole. Each coroutine run by `gather()` or `create_task()` is a *task* with a
program counter: `EntryTask` (event, entry) for the children of `update_model_runs`, `PruneTask`
(event, model) for the removals after an `init` event, `Background` for what calls start. A task
that creates a runner lends it its name, which stands for the object identity the code compares
with `is`.

| TLA+ | Code |
|---|---|
| `ReceiveEvent` | `handle_event` up to the first suspension: the loop of `update_model_runs` has no await, so all lookups see one registry, and infos are refreshed at once |
| `Add`, `Remove`, `BeginInit`, `Forget` | the bodies of `add_model_runner` and `remove_model_runner`; a runner that has no channel yet is closed without suspending |
| `AddStart`, `ReplaceEnd`, `RemoveStart`, `RemoveEnd`, `ReconnectStart`, `ReconnectOldClosed`, `FailStart`, `SendDone` | the segments between the awaits of `close()` and `send_message()` |
| `Dial`, `Retry`, `InitOk`, `InitFailed`, `InitAborted`, `InitRaised` | the TLS probe's answer, a new attempt, and the ways `init()` ends, with what `add_model_runner` does next in the same segment |
| `UpdatesDone`, `PruneDone`, `HandlerLeft` | the ends of `gather()`; an exception leaves the handler while its siblings run on, and a `CancelledError` also ends `listen()` |
| `Spawn` | `create_task(process_failure)` or `create_task(reconnect_model_runner)`, for any runner a call may still hold |

Abstractions. Tasks may start in any order (asyncio is first in, first out: the model has more
behaviours). A `gather()` of nothing does not suspend in asyncio; the model allows a step in
between. Ports and addresses are one `endpoint`; infos and name one value. The five attempts are
a nondeterministic `Retry` (counted in `ModelRunner`); an insecure retry replaces open channels by open ones and is no step.
gRPC's part: closing a channel cancels the calls on it, and an answer received before the close
began may still be delivered before it ends. An unknown event or state, which the code logs and
ignores, is no step; `send_message` is taken never to raise. Events are well formed: a deployment at
most once, one `RUNNING` deployment of a model (`WellFormed` in `ModelClusterInv`).

### ConcurrentRunner

`exec[s][r]` is where the execution of call `s` on runner `r` stands: `ready` (before
`should_skip_for_timeout_reason`), `asked`, `checking` (awaiting the health check), or its status.
`Ask` and `Skip` are the two results of `should_skip_for_timeout_reason`, whose return value leads
to the next await in the same segment. The other actions are the branches of
`_execute_model_method_with_timeout`: `Succeeds`, `Errs`, `BadImplementation`, `TimesOut`,
`Checked`, `AuthFails` (returns `None`), `Misused` (any other exception), and `Cancelled`: `close()`
closes both channels, so that a `CancelledError` ends the await of the answer or of the health check, with
nothing counted, no task started and no result. `scheduled[r]` holds the failure codes, and `"reconnect"`,
of tasks started for `r`.

The names in `Runners` stand for runner objects; a name may be used again for a new runner of its model
(`ModelOf`) once no call holds the old one. Of the registry these steps matter: `Close`, when a
removal begins, for whatever reason; `Leave`, when it ends; `Reconnect`, the end of
`reconnect_model_runner`, which registers a new runner with all counters at zero in place of any of its
model; `ReconnectFails`, when the `init()` of the new one fails. `missed` and `overlapped` are history
variables used by properties only. A call names runners or takes the registered
ones (`Called`: an empty list is taken for none).

### ModelRunner, RunnerContract, Security

`pc` is the await at which `init()` stands; `attempt` counts, `made` is the attempt that made the channels
the runner holds, and `tls_pub` is the key they are pinned to. `mode` is the choice of credentials.

| TLA+ | Code |
|---|---|
| `Start`, `NextAttempt` | the head of the loop: `closed` is read, then the attempt runs to its first await |
| `Probed` | the answer of `fetch_peer_rsa_spki_mtls` in `_connect_secure_channels`; the dial follows in the same segment, and `closed` is not read in between |
| `Connected` | both `channel_ready()` return, time out, or fail on a closed channel (`UsageError`) |
| `Setup` | `setup()` as `DynamicSubclassModelRunner` overrides it: the status of the answer, or what the call or its interceptor raises |
| `SetupCut` | the channel is closed under the call: `CancelledError`, which is no `Exception`, or a usage error before the call is made |
| `TlsChecked` | `is_tls_connection` in the handler of a timeout |
| `Except`, `Backoff` | the `except` clauses in their order, and the lines after them |
| `Close`, `Shut` | `close()` up to its await, and its end |

`Security` gives the value each check returns or the exception it raises, in the order of the code:
`FetchPeer`, `IsTls`, `VerifyDelegation`, `Intercept`. Peers, headers and signed statements are records of
what the code can tell apart; a statement is signed if it is in the constant `Issued`, which models
unforgeable signatures. The node may be another peer at every probe and may send any header with every
answer, signed ones included.

Abstractions: the two channels are made, awaited and closed together; the pause grows with the attempt
in the code and has no length here; `last_error` and logging are left out. The contract's `Phase` maps a
secure runner that has not dialled in its attempt, in backoff too, to `"probe"`; in the other modes an
attempt that replaces open channels by open ones is a stutter.

### WebsocketClient

`loop` is the await at which the coordinator stands, in `init()` (until `syncing`) or in `listen()`;
`sending` are the reports that tasks are sending beside it. The orchestrator is external: it numbers its
changes, greets each connection with an `init` event that tells them all and tells each later one by an
`update`, which is what `ModelCluster.handle_event` expects of it.

| TLA+ | Code |
|---|---|
| `ConnectOk`, `ConnectFails` | one turn of the loop of `connect()`; the fifth failure raises only if `self.websocket` is `None`, otherwise `listen()` goes on with the closed connection |
| `Flush`, `FlushSent`, `FlushFails` | `_send_pending_messages` between its awaits: the test of the queue, `get()`, the send, `put()` after a failure |
| `Iterate` | the head of the loop of `listen()` with `is_connected()` |
| `Receive`, `Handled`, `HandlerRaises` | `recv()` and `async for`, one event at a time, and the ends of the handler |
| `FindClosed`, `PauseOver` | the ends of the iteration and the pause of ten seconds |
| `SendMessage`, `SendReturns`, `SendFails` | `send_message` up to its await, and the two ends of it |
| `Disconnect`, `Lose` | `disconnect()`, at any await; the network or the server ends the connection |

Abstractions. A lost connection may keep a prefix of the events that had arrived. `send_message` is called
once for each report, and not before there was a connection: the cluster reports only what events or calls
led to. The `finally` of `listen()` (lines 95-99) never clears anything once a connection was open, as only
`State.CONNECTING` is 0, so it is no part of the model. **Assumption**: the tasks whose
send failed with the old connection are woken before a new one is made (`ConnectOk` waits for
`sending = {}`): the library wakes them when the connection ends, and a new one takes a pause or a round
trip. The history variable `missed` is used by properties only.

## 3. What is checked

| Run | Shows |
|---|---|
| `cluster_events` | events alone, in pairs of up to two entries, on secure runners: `LastEventApplied`, `NoOrphan`, `NoZombie`, `ListenerSurvives` |
| `cluster_background` | two tasks started by calls (failures, reconnections or one of each) race with two events, exceptions included: `TypeOK`, `PendingOwned`, `ClosedRunnerBeingRemoved`, `EvictedOnlyWhenClosed`, `ReportedStaysOut`, `RunnersKeepContract`; under fairness `ReportedLeaves` |
| `cluster_siblings` | two entries an event, on two models and secure runners, with inits that raise: siblings outlive their event and race with the next one. `PendingOwned`, `EvictedOnlyWhenClosed`, `RunnersKeepContract`; under fairness `EventHandled` |
| `runner` | one runner in all modes, against all peers, headers and answers: `TypeOK`, `TrustedNode`, `ImplementsContract`, `InitAdvances`; under fairness `InitReturns` |
| `websocket` | two reports, two changes, two lost connections: `TypeOK`, `HeldOnce`, `NothingStranded`, `ViewHasNoGaps`; under fairness `ReportsSent`, `ViewConverges` |
| `calls_overlapping` | two calls at a time or one after the other, with every fault, removal and reconnection: `TypeOK`, `FaultNeedsTwoMisses`; under fairness `FaultyLeaves` |
| `cluster_stale_reconnect` | **violated**: a reconnection brings back a stopped deployment |
| `cluster_orphan` | **violated**: two additions of one model leak a connected runner |
| `cluster_zombie` | **violated**: a runner closed during its TLS probe is registered |
| `calls_lost` | **violated**: one `AuthError` loses the results of all models |
| `calls_penalties` | **violated**: a pause outlasts a success when calls overlap |
| `calls_unhealthy` | **violated**: `FaultyStopped`; a model that times out and fails its health checks is reconnected for ever |

The violated properties quote what a docstring or a comment says (`findings` in
`PROJECT.json`). `NoOrphan` and `NoZombie` each hold in one run and fail in
another, and `PenaltiesCleared`, which overlapping calls break, is proved for calls that do not overlap
(`SequentialPenaltiesCleared`). The first two hold while events are the only
actors, as an event waits for all its children before the next is taken; they fail once a second
party works on the registry: a task started by a call, as in the violation runs, or the siblings that
run on when an `InvalidCoordinatorUsageError` leaves a handler (`UsageErrors` TRUE in
`cluster_events`). `LastEventApplied` is a property of events that are handled to the end, and needs
both absent, as does `ListenerSurvives`.

`FaultyLeaves` and `FaultyStopped` are about a model that never succeeds again, whichever runner
stands for it. It leaves the registry or is reconnected again and again (`FaultyLeaves`); the docstring of
`ModelConcurrentRunner` promises the former only, which `calls_unhealthy` refutes: `timeout, skipped
call, failed health check, reconnection` is a cycle, as the timeout of an unhealthy runner is not counted and the
reconnected one counts from zero. `ReportedLeaves` and `ReportedStaysOut`, in contrast, are about one runner object:
after the report of a runner its model may be connected again by a reconnection under way.

`EventHandled` names all that can keep an event from being handled to its end: an `init()` of it that never
returns, as `Setup` has no timeout, or a `CancelledError` because somebody closed a starting runner of it, which
ends the listener. Nothing else does, in whatever order siblings close, replace and remove the same runners. The
tasks of events alone never end the listener (`ListenerSurvives`).

Facts met on the way, which are transitions of the models and not runs of their own. Most contradict no
text of the repository; the sixth does (the docstring at `wallet_gelegation.py:85` says `AuthError` only), at
no cost to the properties:

* A model may be declared `MULTIPLE_TIMEOUT` when it was slow once only: skipped calls count as timeouts,
  and an answer with an error does not reset them; what holds is `FaultNeedsTwoMisses`.
* A timeout past the limit whose health check fails schedules both a report and a reconnection.
* A `close()` while a call waits for its answer or its health check leaves that runner out of the result.
* In gateway mode a timeout of the node ends in `InvalidCoordinatorUsageError` instead of a retry
  (`model_runner.py:116`), as the gateway answers TLS; the exception leaves the event's handler.
* A secure node whose port is not open yet (`tls_peer_key.py:97`), or whose `Setup` fails before any metadata
  (`grpc_auth_interceptor.py:57`), is given up with `AUTH_ERROR` at once; a silent one is retried five times.
* `verify_wallet_delegation` leaves by `AttributeError` or `ValueError` on two kinds of malformed payload
  (`wallet_gelegation.py:85`, `:132`), which costs retries but lets no node through; `expires_at` is parsed and
  compared with nothing.
* After five failed retries `connect()` returns normally if there ever was a connection
  (`websocket_client.py:57`). This is benign: the closed connection raises again and `listen()` starts over.
* A `disconnect()` while `connect()` dials closes nothing; `listen()` receives over the new
  connection until that ends (`websocket_client.py:166`).

**Bounds.** `MaxEvents` = 2: one event to build a registry, one to race with it. `MaxData` = 2
entries, as siblings under `gather()` interfere in pairs; 1 where tasks started by calls are the other
party. `MaxBackground` = 2: two tasks on one runner, such as a report and a reconnection. Model `m1`
has two deployments, two endpoints and two infos, every case of the lookup; `m2` tells pruning from
keeping. `cluster_siblings` takes one deployment of each. `CountBound` stops calls once a counter has passed the limit, so that every
decision about the limit is taken. `MaxTimeouts` = 2 in `calls_overlapping` is the limit at which one
miss and one skipped call are just allowed: off by one, in the limit or in the pause, condemns. There
one name is enough, as it is used again by every reconnection, while an old runner that a call
holds has to be let go first.
With such limits a health check is due at every timeout after the first; the proofs cover every
threshold. All runs use `ReportFailure` TRUE; FALSE is covered by the theorems.

`runner` has the real limit of five attempts. Two keys, two wallets, two model ids and two hotkeys are an
expected value and another one for every comparison; `Issued` holds the statement that authorizes the
connection and, for each check of a signed statement, one that this check alone refuses.
`websocket` has the real five retries. `MaxChanges` = 2 distinguishes a gap from a missing end;
`MaxFaults` = 2 lets a connection fail while the loss of another is still being repaired, as a flush
that fails half-way; two reports are the least that can be reordered in the queue, or meet one in the hand.

Deadlock is not checked: with all events and tasks of the bound used up, every model gone, an `init()`
ended, or the listener over, the system rests.

**Fairness.** Weak fairness of every task and handler step: the asyncio loop runs what is ready,
and `close()` and `send_message()` return. No fairness is assumed of `init()` in the cluster: `Setup`
has no timeout in the code (`model_runner.py:109` says so itself). `ReportedLeaves` needs none, as a runner
is reported only after its `init()`, and `EventHandled` counts an `init()` that does not end. That it
does end if the node answers `Setup` is `InitReturns` of `ModelRunner`, from weak fairness of `InitStep`. For calls: every await of an execution has a timeout, scheduled
tasks close the runner, reconnections end, and the coordinator goes on calling all registered models, whatever
other calls it makes (strong fairness of `Call` with no list). No fairness is assumed of events, of
retries, of success or of `Spawn`. `FaultyLeaves` is checked without coordinator misuse (`OwnFaults`):
an unexpected exception counts for nothing in the code, so a misused model stays. For the connection:
weak fairness of the coordinator's own steps (`Client`; handlers end, which by `EventHandled` assumes that nodes answer `Setup`) and of each send,
and strong fairness of `ConnectOk`: a server that is dialled again and again accepts at last, without
which no client could send anything. None of `Lose`, `Disconnect` or `Change`.
`ReportsSent` and `ViewConverges` excuse a listener that has ended (`disconnect`, a `CancelledError`, or
five failures before the first connection), and `ViewConverges` a handler that failed on this connection.

## 4. What is proved

Every safety property of a passing run is a theorem, for every value of the constants; where a
hypothesis is needed, the violation runs show that it cannot be dropped, or the text says why.

### The registry, whatever races (`ModelClusterProofs`, `ContractProofs`)

For all models, entries, events and numbers of tasks, from `ClusterAssumption` (bounds are naturals,
model ids are no numbers, payloads consist of entries):

* `TypeCorrect`, `PendingIsOwned`, `EvictionsClosed`: `TypeOK`, `PendingOwned`,
  `EvictedOnlyWhenClosed` of every behaviour, secure or not.
* `ReportedAreOut`: `ReportedStaysOut`, secure or not.
* `ClosedRunnersLeave` and `NoZombieInsecure`: `ClosedRunnerBeingRemoved`, and from it `NoZombie`, when
  runners do not probe TLS. With probes both are false: that is the finding of `cluster_zombie`.
* `ClusterKeepsContract`: each runner implements `RunnerContract`.

None of them is inductive. That the deletion after `close()` spares other runners, for instance,
needs to know that a waiting task's target has been closed and is not the runner another task is about
to register. `TaskInv` (in `ModelClusterInv`) adds what tasks can meet: a runner enters the registry or
becomes a target only after its own task has begun `init()` (`Begun`), whatever waits at a
`close()` waits for a closed runner, running entries are initialized runners of their model, and tasks
of later events are idle. `CloseInv` adds that without probes a closed runner has no open
channel, so that its `close()` always suspends and some task tends it. `ReportInv` adds that a reported
runner's `init()` is over: the entries of the registry are made by a runner's own task on its way
into and out of `init()`, which lies behind it. `NextTaskInv` has a lemma per action,
`AddEffect` says once what `add_model_runner` does, and the others build on `TaskInv`. For the contract, what has to be
added is `Unbuilt`: a name whose task has not built a runner yet has no channel, was not closed and is
not initialized, and nobody else touches it. `RunnersKeepContract` is written as the initial condition
and the step condition of each runner, the form of the contract's `Spec` under a quantifier.

### The registry, events alone (`EventProofs`)

`EventsAlone` says: calls start no tasks (`MaxBackground = 0`), no exception leaves a handler
(`~UsageErrors`), and the orchestrator's lists are well formed. This is the setting of `cluster_events`,
for any number of models, entries and events and with or without TLS probes:

* `EventsApplied`: `LastEventApplied`, when failures are reported (a failed model is recognized by its report).
* `StoppedAreRemoved`, `NoOrphanOfEvents`, `NoZombieOfEvents`: `StoppedRemoved`, `NoOrphan` and `NoZombie`,
  which the three violation runs of the cluster refute. Together with these theorems the runs say
  where the fault is: not in the handling of events, but in a second party at the registry.
* `ClosedRunnersLeaveOfEvents`: `ClosedRunnerBeingRemoved`, with probes too.
* `ListenerSurvivesEvents`: `ListenerSurvives`.

A weaker hypothesis would not do: a task of a call refutes the claims in the violation runs, the siblings
of an exception overlap the next event, and a list with two `RUNNING` deployments of a model makes two
`add_model_runner` of it, the situation of `cluster_orphan`.

The inductive invariant is `EventInv`, on top of `TaskInv`. It tells for each entry of the event being handled how far
its task has come. `OnlyThisEvent`: only tasks of this event are at work, and only in their phase, as
`gather()` is waited for. `AdderSteps`, `RemoverSteps`, `PrunerSteps`: what each kind of task does, and to
whom. `StartingAlone`: nobody closes a runner during its `init()`, and no running runner of its model is
left by then. `InitializedKept`: an initialized runner is registered until it is closed.
`EntriesTaken`, `OthersPruned`: an entry without a task is served already or failed, and what must go has a
task about to remove it. The argument rests on `SoleAdder`: as a list runs one deployment of
a model, only one task at a time adds a runner of it. So the current runner that `add_model_runner`
reads before its await cannot be replaced during it by anybody else, which is what
goes wrong in `cluster_orphan`; and no removal of this event aims at a runner that is starting, which is
what goes wrong in `cluster_zombie`. `ShrinkKeeps` says once what all steps that only remove have in common.

### Calls (`ConcurrentRunnerProofs`)

For all runners, calls and limits, from `RunnerAssumption`:

* `CallTypesCorrect`: for any number of overlapping calls, by `CallInv`.
* `ResultsUnlessAuthFails`: `CallReturnsResults` for any number of overlapping calls if `"auth"` is not among
  `Faults`: the branch that `calls_lost` takes is the only one that loses results.
* `SequentialFault`: `FaultNeedsTwoMisses` if the limit is not 1, for any calls, reconnections and removals; the
  property itself speaks of the time until two calls are first under way at once. With a
  limit of 1 the first timeout and the skip after it already exceed it.
* `SequentialPenaltiesCleared`: `PenaltiesCleared` if there is one slot only (`Sequential`).

The invariant of the last two is `PauseInv`: until calls overlap, at most one is under way, and each runner
keeps the pace `Paced`: as long as at most one answer was missed, the timeouts are that answer and one
skipped call, after which the model is asked again. A cancelled health check, which counts nothing, and a
reconnection, which begins anew, keep it.

### One runner (`ModelRunnerProofs`)

For all keys, wallets, names and signed statements, from `RunnerAssumption` and `SecurityAssumption`:

* `RunnerTypesCorrect`, `SecureNodeTrusted`: `TypeOK` and `TrustedNode`.
* `RunnerImplementsContract`: `Spec => ImplementsContract`, by a mapping of each step to a step of the
  contract or a stutter.
* `InitAlwaysAdvances`: `InitAdvances`, the safety half of `InitReturns`. `SegmentsLeft` is a natural number,
  26 at most, that every segment of `init()` lowers, and no `close()` or other step touches what it depends on.
  What fairness adds, and only TLC checks, is that a segment that is ready is run.

The invariant `AttemptInv` ties the await to the attempt that made the channels: `TrustedNode` alone is lost
at the step where a new attempt's `Setup` could meet the key of an older one, the contract's `Retry`
needs that only a runner that is not closed begins an attempt, and `SegmentsLeft` that no backoff follows the last attempt.

### The websocket client (`WebsocketProofs`)

For any reports, changes and faults, from `ClientAssumption`:

* `ClientTypesCorrect`, `ReportsHeldOnce`, `NoReportStranded`: `TypeOK`, `HeldOnce`, `NothingStranded`.
* `NoGaps`: `ViewHasNoGaps`, the safety half of `ViewConverges`.

`NothingStranded` is not inductive: a report that is in the hand when its flush fails, or in a send while
a new connection is made, would end in the queue of an open connection. `PlaceInv` says where the
coordinator stands when it has something in hand and when there can be a connection. `PutEffect` and
`GetEffect` are the lemmas about the queue that `HeldOnce` rests on. `ViewHasNoGaps` speaks of what has been
handled; `ViewInv` says of what is still to be handled that it continues the view without a gap up to the present
while the connection is open, and that the greeting that makes up for everything missed is still ahead as long as `init()` waits for it.

### Only model-checked

Liveness (`EventHandled`, `ReportedLeaves`, `FaultyLeaves`, `InitReturns`, `ReportsSent`, `ViewConverges`),
which the proof system's backends do not reach. Of four of them a safety part is a theorem: `InitAdvances`,
`ViewHasNoGaps`, `NothingStranded`, and for `ReportedLeaves` that there is no way back (`ReportedStaysOut`).

## 5. Not modelled

* `datatype_transformer.py`: pure conversions through `struct`, `json`, `pandas` and `pyarrow`, with one match per
  type and no state. What they return is decided by those libraries. That a conversion may raise is
  `Misused` or `BadImplementation` of `ConcurrentRunner`.
* The token of `gateway_auth_interceptor.py`: a server outside the repository decides about it. The gateway
  mode itself is in `ModelRunner`.
* Loading of key files and certificates, arguments marked deprecated, building of requests: no state.
* When the finaliser of `grpc.aio` closes the channels of failed attempts; delivery of a report beyond the return
  of `send`; the order of reports.
* TLS, signatures, gRPC and Parquet themselves (libraries); generated stubs; logging.
* `model_cluster.start` (line 234), which nothing calls.

## 6. What could follow

1. A composition of `ModelCluster` with an orchestrator that answers reports by `STOPPED`, and with
   `WebsocketClient` in place of its abstract `ReceiveEvent`.
2. The pending models that an `init` event does not prune after an exception left a handler (see the hazard
   at `model_cluster.py:68`).
