-------------------------- MODULE WebsocketClient --------------------------
(***************************************************************************)
(* The coordinator's connection to the orchestrator: WebsocketClient       *)
(* (websocket_client.py) as ModelCluster.init and ModelCluster.sync drive  *)
(* it.  Init and listen are one coroutine of the coordinator, which stands *)
(* at `loop'; send_message runs in any number of tasks beside it.  Each    *)
(* action is a segment between two awaits.                                 *)
(*                                                                         *)
(* The orchestrator (external) numbers its changes 1 .. truth; it greets   *)
(* every connection with an `init' event that tells them all, and tells    *)
(* each later one by an `update'.                                          *)
(* Definitions named Faulty... are no part of the model: each is a         *)
(* plausible defect of the definition after it, and breaks a property.     *)
(***************************************************************************)
EXTENDS Integers, Sequences

CONSTANTS Reports,     \* the messages given to send_message
          None,        \* Python's None
          MaxChanges,  \* bound: changes the orchestrator makes
          MaxFaults    \* bound: connections lost or closed

max_retries == 5

VARIABLES
  websocket,  \* self.websocket: "None", or the state of the last connection
  inbox,      \* its events that have not been received
  faults,     \* connections lost or closed so far
  loop,       \* the await at which init or listen stands
  retry,      \* retry_count of connect()
  syncing,    \* listen() has been called
  listening,  \* self.listening
  event,      \* the event whose handler runs
  applied,    \* the changes the cluster knows of
  missed,     \* history: a handler failed since the last `init' event was applied
  truth,      \* the changes made
  fresh,      \* reports that send_message has not been called for
  queue,      \* self.message_queue
  hand,       \* the message _send_pending_messages is sending
  sending,    \* the reports that a send_message is sending
  sent        \* the reports whose send has returned

server == <<truth, inbox, faults>>
control == <<loop, retry, syncing, listening>>
view == <<event, applied, missed>>
reports == <<fresh, queue, hand, sending, sent>>
vars == <<websocket, server, control, view, reports>>

Events == [type : {"init"}, change : 0 .. MaxChanges]
          \cup [type : {"update"}, change : 1 .. MaxChanges]

ASSUME ClientAssumption == /\ None \notin Reports \cup Events
                           /\ MaxChanges \in Nat /\ MaxFaults \in Nat

TypeOK ==
  /\ websocket \in {"None", "open", "closed"}
  /\ inbox \in Seq(Events)
  /\ faults \in 0 .. MaxFaults
  /\ loop \in {"connecting", "flushing", "receiving", "handling", "pausing",
               "ready", "ended"}
  /\ retry \in 0 .. max_retries
  /\ syncing \in BOOLEAN
  /\ listening \in BOOLEAN
  /\ event \in Events \cup {None}
  /\ applied \in SUBSET (1 .. MaxChanges)
  /\ missed \in BOOLEAN
  /\ truth \in 0 .. MaxChanges
  /\ fresh \subseteq Reports
  /\ queue \in Seq(Reports)
  /\ hand \in Reports \cup {None}
  /\ sending \subseteq Reports
  /\ sent \subseteq Reports

Init ==
  /\ websocket = "None" /\ inbox = <<>> /\ faults = 0
  /\ loop = "connecting" /\ retry = 0 /\ syncing = FALSE /\ listening = FALSE
  /\ event = None /\ applied = {} /\ missed = FALSE
  /\ truth = 0
  /\ fresh = Reports /\ queue = <<>> /\ hand = None /\ sending = {} /\ sent = {}

-----------------------------------------------------------------------------
(***************************************************************************)
(* The orchestrator and the network.                                       *)
(***************************************************************************)
Change ==
  /\ truth < MaxChanges
  /\ truth' = truth + 1
  /\ inbox' = IF websocket = "open"
              THEN Append(inbox, [type |-> "update", change |-> truth + 1])
              ELSE inbox
  /\ UNCHANGED <<websocket, faults, control, view, reports>>

\* The connection is over; what had arrived can still be received.
GoesDown ==
  /\ websocket' = "closed"
  /\ faults' = faults + 1
  /\ \E n \in 0 .. Len(inbox) : inbox' = SubSeq(inbox, 1, n)

Lose ==
  /\ websocket = "open" /\ faults < MaxFaults
  /\ GoesDown
  /\ UNCHANGED <<truth, control, view, reports>>

\* disconnect()
Disconnect ==
  /\ faults < MaxFaults
  /\ listening' = FALSE
  /\ \/ websocket = "open" /\ GoesDown
     \/ websocket # "open" /\ UNCHANGED <<websocket, inbox, faults>>
  /\ UNCHANGED <<truth, loop, retry, syncing, view, reports>>

-----------------------------------------------------------------------------
(***************************************************************************)
(* connect, init and listen.                                               *)
(***************************************************************************)

\* Defect: what is queued is not sent on the new connection.
FaultyFlush(q, state) ==
  /\ loop' = "receiving"
  /\ hand' = None
  /\ queue' = q

\* _send_pending_messages from the test of the queue to its next await, or to the
\* exception of a send on a closed connection, which listen() catches.
Flush(q, state) ==
  \/ q = <<>> /\ loop' = "receiving" /\ hand' = None /\ queue' = q
  \/ /\ q # <<>> /\ state = "open"
     /\ loop' = "flushing" /\ hand' = Head(q) /\ queue' = Tail(q)
  \/ /\ q # <<>> /\ state = "closed"
     /\ loop' = "pausing" /\ hand' = None /\ queue' = Append(Tail(q), Head(q))

\* Defect: connect() goes on counting where its last call ended.
UncountedIterate(l) ==
  /\ loop' = IF ~l THEN "ended" ELSE IF websocket = "open" THEN "receiving"
             ELSE "connecting"
  /\ UNCHANGED retry

\* Defect: is_connected() does not ask for the state of the connection.
FaultyIterate(l) ==
  /\ loop' = IF ~l THEN "ended" ELSE "receiving"
  /\ UNCHANGED retry

\* The head of the loop of listen(), and is_connected().
Iterate(l) ==
  \/ ~l /\ loop' = "ended" /\ UNCHANGED retry
  \/ l /\ websocket = "open" /\ loop' = "receiving" /\ UNCHANGED retry
  \/ l /\ websocket # "open" /\ loop' = "connecting" /\ retry' = 0

\* The tasks whose send failed with the last connection are woken before a new one
\* can be made, which takes a round trip.
ConnectOk ==
  /\ loop = "connecting" /\ sending = {}
  /\ websocket' = "open"
  /\ inbox' = <<[type |-> "init", change |-> truth]>>
  /\ \/ syncing /\ Flush(queue, "open")
     \/ ~syncing /\ loop' = "receiving" /\ UNCHANGED <<queue, hand>>
  /\ UNCHANGED <<truth, faults, retry, syncing, listening, view, fresh, sending, sent>>

\* One dial fails, and the sleep after it ends.  The last failure raises
\* ConnectionError only if there never was a connection; otherwise listen() goes on
\* with the closed one.
ConnectFails ==
  /\ loop = "connecting"
  /\ retry' = retry + 1
  /\ \/ retry + 1 < max_retries /\ UNCHANGED <<loop, queue, hand>>
     \/ retry + 1 >= max_retries /\ websocket = "None" /\ loop' = "ended"
        /\ UNCHANGED <<queue, hand>>
     \/ retry + 1 >= max_retries /\ websocket # "None" /\ Flush(queue, websocket)
  /\ UNCHANGED <<websocket, server, syncing, listening, view, fresh, sending, sent>>

FlushSent ==
  /\ loop = "flushing"
  /\ sent' = sent \cup {hand}
  /\ Flush(queue, websocket)
  /\ UNCHANGED <<websocket, server, retry, syncing, listening, view, fresh, sending>>

\* Defect: the message of a failed send is not put back.
FaultyFlushFails ==
  /\ loop = "flushing" /\ websocket = "closed"
  /\ hand' = None
  /\ loop' = "pausing"
  /\ UNCHANGED <<websocket, server, retry, syncing, listening, view, fresh, queue,
                 sending, sent>>

FlushFails ==
  /\ loop = "flushing" /\ websocket = "closed"
  /\ queue' = Append(queue, hand)
  /\ hand' = None
  /\ loop' = "pausing"
  /\ UNCHANGED <<websocket, server, retry, syncing, listening, view, fresh, sending,
                 sent>>

Receive ==
  /\ loop = "receiving" /\ inbox # <<>>
  /\ event' = Head(inbox)
  /\ inbox' = Tail(inbox)
  /\ loop' = "handling"
  /\ UNCHANGED <<websocket, truth, faults, retry, syncing, listening, applied, missed,
                 reports>>

\* recv() or `async for' finds the connection closed: init() returns; listen()
\* iterates at once after a normal close, and pauses after any other.
FindClosed ==
  /\ loop = "receiving" /\ inbox = <<>> /\ websocket = "closed"
  /\ \/ ~syncing /\ loop' = "ready" /\ UNCHANGED retry
     \/ syncing /\ Iterate(listening)
     \/ syncing /\ loop' = "pausing" /\ UNCHANGED retry
  /\ UNCHANGED <<websocket, server, syncing, listening, view, reports>>

\* Defect: init() takes the event that greets it for a formality.
FaultyHandled ==
  /\ loop = "handling"
  /\ applied' = IF ~syncing THEN applied
                ELSE IF event.type = "init" THEN 1 .. event.change
                ELSE applied \cup {event.change}
  /\ missed' = (missed /\ event.type # "init")
  /\ event' = None
  /\ loop' = IF syncing THEN "receiving" ELSE "ready"
  /\ UNCHANGED <<websocket, server, retry, syncing, listening, reports>>

Handled ==
  /\ loop = "handling"
  /\ applied' = IF event.type = "init" THEN 1 .. event.change
                ELSE applied \cup {event.change}
  /\ missed' = (missed /\ event.type # "init")
  /\ event' = None
  /\ loop' = IF syncing THEN "receiving" ELSE "ready"
  /\ UNCHANGED <<websocket, server, retry, syncing, listening, reports>>

\* The handler raises: init() and listen() catch an Exception and drop the event, a
\* CancelledError (see HandlerLeft of ModelCluster) leaves them.
HandlerRaises ==
  /\ loop = "handling"
  /\ missed' = TRUE
  /\ event' = None
  /\ loop' \in {IF syncing THEN "pausing" ELSE "ready", "ended"}
  /\ UNCHANGED <<websocket, server, retry, syncing, listening, applied, reports>>

PauseOver ==
  /\ loop = "pausing"
  /\ Iterate(listening)
  /\ UNCHANGED <<websocket, server, syncing, listening, view, reports>>

\* ModelCluster.sync
Listen ==
  /\ loop = "ready"
  /\ syncing' = TRUE
  /\ listening' = TRUE
  /\ Iterate(TRUE)
  /\ UNCHANGED <<websocket, server, view, reports>>

-----------------------------------------------------------------------------
(***************************************************************************)
(* send_message, once for each report.                                     *)
(***************************************************************************)
SendMessage(m) ==
  /\ m \in fresh /\ websocket # "None"
  /\ fresh' = fresh \ {m}
  /\ \/ websocket = "open" /\ sending' = sending \cup {m} /\ UNCHANGED queue
     \/ websocket = "closed" /\ queue' = Append(queue, m) /\ UNCHANGED sending
  /\ UNCHANGED <<websocket, server, control, view, hand, sent>>

\* The connection may be gone though the send has returned.
SendReturns(m) ==
  /\ m \in sending
  /\ sending' = sending \ {m}
  /\ sent' = sent \cup {m}
  /\ UNCHANGED <<websocket, server, control, view, fresh, queue, hand>>

\* Defect: the exception of the send is not caught.
FaultySendFails(m) ==
  /\ m \in sending /\ websocket = "closed"
  /\ sending' = sending \ {m}
  /\ UNCHANGED <<websocket, server, control, view, fresh, queue, hand, sent>>

SendFails(m) ==
  /\ m \in sending /\ websocket = "closed"
  /\ sending' = sending \ {m}
  /\ queue' = Append(queue, m)
  /\ UNCHANGED <<websocket, server, control, view, fresh, hand, sent>>

Client == \/ ConnectFails \/ FlushSent \/ FlushFails \/ Receive \/ FindClosed
          \/ Handled \/ HandlerRaises \/ PauseOver \/ Listen

Next ==
  \/ Change \/ Lose \/ Disconnect
  \/ ConnectOk \/ Client
  \/ \E m \in Reports : SendMessage(m) \/ SendReturns(m) \/ SendFails(m)

Spec == Init /\ [][Next]_vars

\* The loop runs what is ready, handlers end, the coordinator calls sync() after
\* init(), and a server that is dialled again and again accepts at last.
FairSpec ==
  /\ Spec
  /\ WF_vars(Client) /\ SF_vars(ConnectOk)
  /\ \A m \in Reports : WF_vars(SendReturns(m) \/ SendFails(m))

-----------------------------------------------------------------------------
(***************************************************************************)
(* Properties.                                                             *)
(***************************************************************************)
Queued == {queue[i] : i \in 1 .. Len(queue)}

\* No report is forgotten or sent by two: from the call of send_message until a send
\* of it returns it is in exactly one place, through failed sends, lost connections
\* and flushes that fail half-way.
HeldOnce ==
  /\ \A i, j \in 1 .. Len(queue) : queue[i] = queue[j] => i = j
  /\ fresh \cup sending \cup Queued \cup sent \cup ({hand} \ {None}) = Reports
  /\ fresh \cap (sending \cup Queued \cup sent \cup {hand}) = {}
  /\ sending \cap (Queued \cup sent \cup {hand}) = {}
  /\ Queued \cap (sent \cup {hand}) = {}
  /\ hand \notin sent

\* No report is stranded: the queue is looked at once for each connection, and still
\* it is empty whenever the client is connected and not flushing.
NothingStranded == websocket = "open" /\ loop # "flushing" => queue = <<>>

\* The cluster's view has no gaps, though events are lost with each connection: it is
\* what the orchestrator's was at some time and, once a connected client has received
\* what is under way, what it is now.  Only a failed handler leaves a gap, until the
\* next `init' event.
ViewHasNoGaps ==
  ~missed =>
    /\ \E k \in 0 .. truth : applied = 1 .. k
    /\ websocket = "open" /\ inbox = <<>> /\ event = None => applied = 1 .. truth

\* Every report is sent, however often the connection fails and even after connect()
\* has used up its retries, unless the listener has ended.
ReportsSent == \A m \in Reports : m \notin fresh ~> m \in sent \/ loop = "ended"

\* Events lost with a connection are made good by the next: once the orchestrator and
\* the network are quiet, the cluster has applied every change, unless the listener
\* has ended or a handler failed on an event of this very connection.
ViewConverges ==
  <>[](applied = 1 .. truth \/ missed \/ loop = "ended")
=============================================================================
