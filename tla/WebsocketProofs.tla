--------------------------- MODULE WebsocketProofs ---------------------------
(***************************************************************************)
(* Proofs about WebsocketClient, for any number of reports, changes and    *)
(* faults: the types, HeldOnce, NothingStranded and ViewHasNoGaps.         *)
(***************************************************************************)
EXTENDS WebsocketClient, TLAPS

\* Where the coordinator stands tells what it has in hand, and whether there can be a
\* connection: none before the first dial succeeds, none open while it dials, and
\* init() dials only once.
PlaceInv ==
  /\ loop = "handling" => event # None
  /\ loop = "flushing" <=> hand # None
  /\ loop = "connecting" => retry < max_retries /\ websocket # "open"
  /\ loop = "connecting" /\ ~syncing => websocket = "None"
  /\ websocket = "None" =>
       /\ ~syncing /\ loop \in {"connecting", "ended"}
       /\ queue = <<>> /\ sending = {}
  /\ ~syncing => loop \notin {"flushing", "pausing"}

IInv == TypeOK /\ PlaceInv /\ HeldOnce /\ NothingStranded

Elements(q) == {q[i] : i \in 1 .. Len(q)}
Distinct(q) == \A i, j \in 1 .. Len(q) : q[i] = q[j] => i = j

\* put() adds one message at the end of the queue.
LEMMA PutEffect ==
  ASSUME NEW S, NEW q \in Seq(S), NEW m \in S, Distinct(q), m \notin Elements(q)
  PROVE  /\ Append(q, m) \in Seq(S)
         /\ Elements(Append(q, m)) = Elements(q) \cup {m}
         /\ Distinct(Append(q, m))
<1> DEFINE r == Append(q, m)
<1>1. /\ r \in Seq(S) /\ Len(r) = Len(q) + 1 /\ Len(q) \in Nat
      /\ \A i \in 1 .. Len(r) : r[i] = IF i = Len(q) + 1 THEN m ELSE q[i]
  OBVIOUS
<1>2. Elements(r) = Elements(q) \cup {m}
  BY <1>1 DEF Elements
<1>3. Distinct(r)
  BY <1>1 DEF Distinct, Elements
<1> QED
  BY <1>1, <1>2, <1>3

\* get() takes the first message from the queue.
LEMMA GetEffect ==
  ASSUME NEW S, NEW q \in Seq(S), q # <<>>, Distinct(q)
  PROVE  /\ Head(q) \in S /\ Tail(q) \in Seq(S)
         /\ Elements(q) = Elements(Tail(q)) \cup {Head(q)}
         /\ Head(q) \notin Elements(Tail(q))
         /\ Distinct(Tail(q))
<1> DEFINE r == Tail(q)
<1>1. /\ r \in Seq(S) /\ Len(r) = Len(q) - 1 /\ Len(q) \in Nat \ {0}
      /\ Head(q) = q[1] /\ q[1] \in S
      /\ \A i \in 1 .. Len(r) : r[i] = q[i + 1]
  OBVIOUS
<1>2. \A i \in 1 .. Len(r) : i + 1 \in 1 .. Len(q) /\ i + 1 # 1
  BY <1>1
<1>3. Head(q) \notin Elements(r)
  BY <1>1, <1>2 DEF Elements, Distinct
<1>4. Elements(q) = Elements(r) \cup {Head(q)}
  <2>1. Elements(r) \cup {Head(q)} \subseteq Elements(q)
    BY <1>1, <1>2 DEF Elements
  <2>2. ASSUME NEW i \in 1 .. Len(q)  PROVE q[i] \in Elements(r) \cup {Head(q)}
    <3>1. CASE i = 1
      BY <1>1, <3>1
    <3>2. CASE i # 1
      <4>1. i - 1 \in 1 .. Len(r) /\ r[i - 1] = q[i]
        BY <1>1, <3>2
      <4> QED
        BY <4>1 DEF Elements
    <3> QED
      BY <3>1, <3>2
  <2> QED
    BY <2>1, <2>2 DEF Elements
<1>5. Distinct(r)
  BY <1>1, <1>2 DEF Distinct
<1> QED
  BY <1>1, <1>3, <1>4, <1>5

\* HeldOnce, with the queue as a set.
LEMMA HeldOnceElements ==
  HeldOnce <=>
    /\ Distinct(queue)
    /\ fresh \cup sending \cup Elements(queue) \cup sent \cup ({hand} \ {None}) = Reports
    /\ fresh \cap (sending \cup Elements(queue) \cup sent \cup {hand}) = {}
    /\ sending \cap (Elements(queue) \cup sent \cup {hand}) = {}
    /\ Elements(queue) \cap (sent \cup {hand}) = {}
    /\ hand \notin sent
  BY DEF HeldOnce, Queued, Elements, Distinct

\* The same of the next state.
LEMMA HeldOnceElementsNext ==
  HeldOnce' <=>
    /\ Distinct(queue')
    /\ fresh' \cup sending' \cup Elements(queue') \cup sent' \cup ({hand'} \ {None})
         = Reports
    /\ fresh' \cap (sending' \cup Elements(queue') \cup sent' \cup {hand'}) = {}
    /\ sending' \cap (Elements(queue') \cup sent' \cup {hand'}) = {}
    /\ Elements(queue') \cap (sent' \cup {hand'}) = {}
    /\ hand' \notin sent'
  BY DEF HeldOnce, Queued, Elements, Distinct

\* A flush begun with no message in hand takes one in hand, finds the queue empty, or
\* puts a message back at the end of it: no message is lost or doubled.
LEMMA FlushEffect ==
  ASSUME NEW S, queue \in Seq(S), Distinct(queue), NEW state, Flush(queue, state)
  PROVE  /\ queue' \in Seq(S) /\ Distinct(queue')
         /\ loop' \in {"receiving", "flushing", "pausing"}
         /\ loop' = "flushing" => /\ state = "open"
                                  /\ hand' \in S /\ hand' \notin Elements(queue')
                                  /\ Elements(queue') \cup {hand'} = Elements(queue)
         /\ loop' # "flushing" => hand' = None /\ Elements(queue') = Elements(queue)
         /\ loop' = "receiving" => queue' = <<>>
         /\ loop' = "pausing" => state = "closed"
<1>1. CASE queue = <<>> /\ loop' = "receiving" /\ hand' = None /\ queue' = queue
  BY <1>1
<1>2. CASE /\ queue # <<>> /\ state = "open"
           /\ loop' = "flushing" /\ hand' = Head(queue) /\ queue' = Tail(queue)
  BY <1>2, GetEffect
<1>3. CASE /\ queue # <<>> /\ state = "closed"
           /\ loop' = "pausing" /\ hand' = None
           /\ queue' = Append(Tail(queue), Head(queue))
  <2> DEFINE h == Head(queue)
             t == Tail(queue)
  <2>1. /\ h \in S /\ t \in Seq(S) /\ Distinct(t) /\ h \notin Elements(t)
        /\ Elements(queue) = Elements(t) \cup {h}
    BY <1>3, GetEffect
  <2> HIDE DEF h, t
  <2>2. /\ Append(t, h) \in Seq(S) /\ Distinct(Append(t, h))
        /\ Elements(Append(t, h)) = Elements(queue)
    BY <2>1, PutEffect
  <2>3. queue' = Append(t, h) /\ loop' = "pausing" /\ hand' = None /\ state = "closed"
    BY <1>3 DEF h, t
  <2> QED
    BY <2>2, <2>3
<1> QED
  BY <1>1, <1>2, <1>3 DEF Flush

\* Initially the invariant holds.
LEMMA InitIInv == Init => IInv
<1> SUFFICES ASSUME Init PROVE IInv
  OBVIOUS
<1>1. TypeOK /\ PlaceInv /\ NothingStranded
  <2>1. <<>> \in Seq(Events) /\ <<>> \in Seq(Reports)
    OBVIOUS
  <2>2. TypeOK
    <3>1. /\ websocket = "None" /\ faults = 0 /\ loop = "connecting" /\ retry = 0
          /\ event = None /\ applied = {} /\ truth = 0 /\ hand = None
      BY DEF Init
    <3>2. faults \in 0 .. MaxFaults /\ truth \in 0 .. MaxChanges
      BY <3>1, ClientAssumption
    <3>3. /\ inbox \in Seq(Events) /\ queue \in Seq(Reports)
          /\ fresh \subseteq Reports /\ sending \subseteq Reports /\ sent \subseteq Reports
      BY <2>1 DEF Init
    <3>4. applied \in SUBSET (1 .. MaxChanges)
      BY <3>1
    <3>5. /\ retry \in 0 .. max_retries
          /\ websocket \in {"None", "open", "closed"}
          /\ loop \in {"connecting", "flushing", "receiving", "handling", "pausing",
                      "ready", "ended"}
      BY <3>1 DEF max_retries
    <3>6. syncing \in BOOLEAN /\ listening \in BOOLEAN /\ missed \in BOOLEAN
      BY DEF Init
    <3>7. event \in Events \cup {None} /\ hand \in Reports \cup {None}
      BY <3>1
    <3> QED
      BY <3>2, <3>3, <3>4, <3>5, <3>6, <3>7 DEF TypeOK
  <2>3. PlaceInv
    BY DEF Init, PlaceInv, max_retries
  <2>4. NothingStranded
    BY DEF Init, NothingStranded
  <2> QED
    BY <2>2, <2>3, <2>4
<1>2. HeldOnce
  <2>1. Queued = {}
    BY DEF Init, Queued
  <2>2. queue = <<>> /\ fresh = Reports /\ sending = {} /\ sent = {} /\ hand = None
    BY DEF Init
  <2>3. \A i, j \in 1 .. Len(queue) : queue[i] = queue[j] => i = j
    BY <2>2
  <2> QED
    BY <2>1, <2>2, <2>3, ClientAssumption DEF HeldOnce
<1> QED
  BY <1>1, <1>2 DEF IInv

-----------------------------------------------------------------------------
\* A step that touches no report keeps HeldOnce.
LEMMA ReportsKept ==
  ASSUME HeldOnce, UNCHANGED reports
  PROVE  HeldOnce'
<1>1. UNCHANGED <<fresh, queue, hand, sending, sent>>
  BY DEF reports
<1> QED
  BY <1>1 DEF HeldOnce, Queued

\* The orchestrator and the network keep the invariant.
LEMMA EnvironmentIInv ==
  ASSUME IInv, Change \/ Lose \/ Disconnect
  PROVE  IInv'
<1> USE DEF server, control, view, reports
<1>1. TypeOK /\ PlaceInv /\ HeldOnce /\ NothingStranded
  BY DEF IInv
<1>2. UNCHANGED reports /\ UNCHANGED <<loop, retry, syncing, event, applied, missed>>
  BY DEF Change, Lose, Disconnect
<1>3. HeldOnce'
  BY <1>1, <1>2, ReportsKept
<1>4. /\ websocket' \in {websocket, "closed"}
      /\ websocket = "None" <=> websocket' = "None"
      /\ listening' \in {listening, FALSE}
  BY <1>1 DEF Change, Lose, Disconnect, GoesDown, TypeOK
<1>5. inbox' \in Seq(Events) /\ truth' \in 0 .. MaxChanges /\ faults' \in 0 .. MaxFaults
  <2>1. ASSUME GoesDown, faults < MaxFaults
        PROVE  inbox' \in Seq(Events) /\ faults' \in 0 .. MaxFaults
    <3>1. PICK n \in 0 .. Len(inbox) : inbox' = SubSeq(inbox, 1, n)
      BY <2>1 DEF GoesDown
    <3>2. inbox' \in Seq(Events)
      BY <1>1, <3>1 DEF TypeOK
    <3> QED
      BY <1>1, <2>1, <3>2, ClientAssumption DEF GoesDown, TypeOK
  <2>2. CASE Change
    <3> DEFINE e == [type |-> "update", change |-> truth + 1]
    <3>1. truth + 1 \in 1 .. MaxChanges
      BY <1>1, <2>2, ClientAssumption DEF Change, TypeOK
    <3>2. e \in Events
      BY <3>1 DEF Events
    <3>3. inbox' \in {inbox, Append(inbox, e)}
      BY <2>2 DEF Change
    <3> HIDE DEF e
    <3>4. Append(inbox, e) \in Seq(Events)
      BY <1>1, <3>2 DEF TypeOK
    <3> QED
      BY <1>1, <2>2, <3>1, <3>3, <3>4 DEF Change, TypeOK
  <2>3. CASE Lose
    BY <1>1, <2>1, <2>3 DEF Lose, TypeOK
  <2>4. CASE Disconnect
    BY <1>1, <2>1, <2>4 DEF Disconnect, TypeOK
  <2> QED
    BY <2>2, <2>3, <2>4
<1>6. TypeOK'
  BY <1>1, <1>2, <1>4, <1>5 DEF TypeOK
<1>7. PlaceInv' /\ NothingStranded'
  BY <1>1, <1>2, <1>4 DEF PlaceInv, NothingStranded
<1> QED
  BY <1>3, <1>6, <1>7 DEF IInv

\* Receiving, handling and going round the loop keep the invariant.
LEMMA LoopIInv ==
  ASSUME IInv,
         \/ Receive \/ FindClosed \/ Handled \/ HandlerRaises \/ PauseOver \/ Listen
  PROVE  IInv'
<1> USE DEF server, control, view, reports
<1>1. TypeOK /\ PlaceInv /\ HeldOnce /\ NothingStranded
  BY DEF IInv
<1>2. UNCHANGED <<reports, websocket, truth, faults>>
  BY DEF Receive, FindClosed, Handled, HandlerRaises, PauseOver, Listen
<1>3. HeldOnce'
  BY <1>1, <1>2, ReportsKept
<1>4. CASE Receive
  <2>1. /\ Head(inbox) \in Events /\ Tail(inbox) \in Seq(Events)
    BY <1>1, <1>4 DEF Receive, TypeOK
  <2>2. None \notin Events
    BY ClientAssumption
  <2>3. TypeOK'
    BY <1>1, <1>2, <1>4, <2>1 DEF Receive, TypeOK
  <2>4. PlaceInv' /\ NothingStranded'
    BY <1>1, <1>2, <1>4, <2>1, <2>2 DEF Receive, PlaceInv, NothingStranded
  <2> QED
    BY <1>3, <2>3, <2>4 DEF IInv
<1>5. CASE FindClosed \/ PauseOver \/ Listen
  <2>1. /\ loop' \in {"ready", "pausing", "receiving", "ended", "connecting"}
        /\ loop' = "connecting" => retry' = 0 /\ websocket # "open" /\ syncing'
        /\ retry' \in {retry, 0}
        /\ loop' = "pausing" => syncing'
        /\ syncing' \in BOOLEAN /\ listening' \in BOOLEAN
        /\ syncing => syncing'
        /\ websocket # "None"
        /\ UNCHANGED <<inbox, event, applied, missed>>
    BY <1>1, <1>5 DEF FindClosed, PauseOver, Listen, Iterate, TypeOK, PlaceInv
  <2>2. TypeOK'
    BY <1>1, <1>2, <2>1 DEF TypeOK, max_retries
  <2>3. loop # "flushing" /\ hand = None
    BY <1>1, <1>5 DEF FindClosed, PauseOver, Listen, PlaceInv
  <2>4. PlaceInv' /\ NothingStranded'
    BY <1>1, <1>2, <2>1, <2>3 DEF PlaceInv, NothingStranded, max_retries
  <2> QED
    BY <1>3, <2>2, <2>4 DEF IInv
<1>6. CASE Handled \/ HandlerRaises
  <2>1. event \in Events /\ loop = "handling"
    BY <1>1, <1>6 DEF Handled, HandlerRaises, PlaceInv, TypeOK
  <2>2. /\ applied' \in SUBSET (1 .. MaxChanges) /\ missed' \in BOOLEAN
        /\ event' = None
        /\ loop' \in {"receiving", "ready", "ended", "pausing"}
        /\ loop' = "pausing" => syncing
        /\ UNCHANGED <<inbox, retry, syncing, listening>>
    <3>1. event.type = "update" => event.change \in 1 .. MaxChanges
      BY <2>1 DEF Events
    <3>2. event.type \in {"init", "update"} /\ event.change \in 0 .. MaxChanges
      BY <2>1 DEF Events
    <3>3. 1 .. event.change \subseteq 1 .. MaxChanges
      BY <3>2, ClientAssumption
    <3>4. CASE Handled
      BY <1>1, <3>1, <3>2, <3>3, <3>4 DEF Handled, TypeOK
    <3>5. CASE HandlerRaises
      BY <1>1, <3>5 DEF HandlerRaises, TypeOK
    <3> QED
      BY <1>6, <3>4, <3>5
  <2>3. TypeOK'
    BY <1>1, <1>2, <2>2 DEF TypeOK
  <2>4. PlaceInv' /\ NothingStranded'
    BY <1>1, <1>2, <2>1, <2>2 DEF PlaceInv, NothingStranded
  <2> QED
    BY <1>3, <2>3, <2>4 DEF IInv
<1> QED
  BY <1>4, <1>5, <1>6

\* The dials keep the invariant, with the flush that follows them.
LEMMA ConnectIInv ==
  ASSUME IInv, ConnectOk \/ ConnectFails
  PROVE  IInv'
<1> USE DEF server, control, view, reports
<1>1. TypeOK /\ PlaceInv /\ HeldOnce /\ NothingStranded
  BY DEF IInv
<1>2. /\ loop = "connecting" /\ hand = None
      /\ UNCHANGED <<truth, faults, syncing, listening, event, applied, missed,
                     fresh, sending, sent>>
  BY <1>1 DEF ConnectOk, ConnectFails, PlaceInv
<1>3. queue \in Seq(Reports) /\ Distinct(queue)
  BY <1>1, HeldOnceElements DEF TypeOK
<1>4. /\ inbox' \in Seq(Events) /\ retry' \in 0 .. max_retries
      /\ retry' < max_retries \/ loop' # "connecting"
  <2>1. CASE ConnectOk
    <3>1. [type |-> "init", change |-> truth] \in Events
      BY <1>1 DEF TypeOK, Events
    <3>2. inbox' \in Seq(Events)
      BY <2>1, <3>1 DEF ConnectOk
    <3> QED
      BY <1>1, <2>1, <3>2, <1>2 DEF ConnectOk, TypeOK, PlaceInv
  <2>2. CASE ConnectFails
    <3>1. retry \in 0 .. 4 /\ inbox' = inbox /\ retry' = retry + 1
      BY <1>1, <1>2, <2>2 DEF ConnectFails, TypeOK, PlaceInv, max_retries
    <3>2. inbox' \in Seq(Events) /\ retry' \in 0 .. max_retries
      BY <1>1, <3>1 DEF TypeOK, max_retries
    <3>3. CASE retry + 1 < max_retries
      BY <3>1, <3>2, <3>3
    <3>4. CASE retry + 1 >= max_retries /\ websocket = "None" /\ loop' = "ended"
      BY <3>2, <3>4
    <3>5. CASE retry + 1 >= max_retries /\ websocket # "None" /\ Flush(queue, websocket)
      <4>1. loop' # "connecting"
        BY <3>5 DEF Flush
      <4> QED
        BY <3>2, <4>1
    <3> QED
      BY <2>2, <3>3, <3>4, <3>5 DEF ConnectFails
  <2> QED
    BY <2>1, <2>2
<1>5. CASE Flush(queue, websocket') /\ syncing /\ websocket' # "None"
  <2>1. websocket' \in {"open", "closed"}
    BY <1>1, <1>5 DEF ConnectOk, ConnectFails, TypeOK
  <2>2. /\ queue' \in Seq(Reports) /\ Distinct(queue')
        /\ loop' \in {"receiving", "flushing", "pausing"}
        /\ loop' = "flushing" => /\ websocket' = "open"
                                 /\ hand' \in Reports /\ hand' \notin Elements(queue')
                                 /\ Elements(queue') \cup {hand'} = Elements(queue)
        /\ loop' # "flushing" => hand' = None /\ Elements(queue') = Elements(queue)
        /\ loop' = "receiving" => queue' = <<>>
        /\ loop' = "pausing" => websocket' = "closed"
    BY <1>3, <1>5, FlushEffect
  <2>3. TypeOK'
    BY <1>1, <1>2, <1>4, <2>1, <2>2 DEF TypeOK
  <2>4. PlaceInv'
    BY <1>2, <1>5, <2>1, <2>2, ClientAssumption DEF PlaceInv
  <2>5. HeldOnce'
    BY <1>1, <1>2, <2>2, HeldOnceElements, HeldOnceElementsNext, ClientAssumption
  <2>6. NothingStranded'
    BY <2>2 DEF NothingStranded
  <2> QED
    BY <2>3, <2>4, <2>5, <2>6 DEF IInv
<1>6. CASE /\ UNCHANGED <<queue, hand>> /\ loop' \in {"connecting", "ended", "receiving"}
           /\ loop' \in {"connecting", "ended"} => websocket' = websocket
           /\ loop' = "receiving" => websocket' = "open" /\ ~syncing
  <2>1. HeldOnce'
    BY <1>1, <1>2, <1>6, ReportsKept
  <2>2. TypeOK'
    BY <1>1, <1>2, <1>4, <1>6 DEF TypeOK
  <2>3. PlaceInv'
    BY <1>1, <1>2, <1>4, <1>6 DEF PlaceInv
  <2>4. NothingStranded'
    BY <1>1, <1>2, <1>6 DEF PlaceInv, NothingStranded
  <2> QED
    BY <2>1, <2>2, <2>3, <2>4 DEF IInv
<1>7. CASE ConnectOk
  BY <1>5, <1>6, <1>7 DEF ConnectOk
<1>8. CASE ConnectFails
  BY <1>1, <1>2, <1>5, <1>6, <1>8 DEF ConnectFails, PlaceInv
<1> QED
  BY <1>7, <1>8

\* A flush that goes on or fails keeps the invariant.
LEMMA FlushIInv ==
  ASSUME IInv, FlushSent \/ FlushFails
  PROVE  IInv'
<1> USE DEF server, control, view, reports
<1>1. TypeOK /\ PlaceInv /\ HeldOnce /\ NothingStranded
  BY DEF IInv
<1>2. /\ hand \in Reports /\ syncing /\ websocket \in {"open", "closed"}
      /\ UNCHANGED <<websocket, inbox, truth, faults, retry, syncing, listening, event,
                     applied, missed, fresh, sending>>
  BY <1>1 DEF FlushSent, FlushFails, PlaceInv, TypeOK
<1>3. /\ queue \in Seq(Reports) /\ Distinct(queue) /\ hand \notin Elements(queue)
      /\ sent \subseteq Reports /\ sending \subseteq Reports /\ fresh \subseteq Reports
  BY <1>1, HeldOnceElements DEF TypeOK
<1>4. CASE FlushSent
  <2>1. sent' = sent \cup {hand}
    BY <1>4 DEF FlushSent
  <2>2. /\ queue' \in Seq(Reports) /\ Distinct(queue')
        /\ loop' \in {"receiving", "flushing", "pausing"}
        /\ loop' = "flushing" => /\ websocket = "open"
                                 /\ hand' \in Reports /\ hand' \notin Elements(queue')
                                 /\ Elements(queue') \cup {hand'} = Elements(queue)
        /\ loop' # "flushing" => hand' = None /\ Elements(queue') = Elements(queue)
        /\ loop' = "receiving" => queue' = <<>>
        /\ loop' = "pausing" => websocket = "closed"
    <3>1. Flush(queue, websocket)
      BY <1>4 DEF FlushSent
    <3> QED
      BY <1>3, <3>1, FlushEffect
  <2>3. TypeOK'
    BY <1>1, <1>2, <1>3, <2>1, <2>2 DEF TypeOK
  <2>4. PlaceInv'
    BY <1>1, <1>2, <2>2, ClientAssumption DEF PlaceInv
  <2>5. HeldOnce'
    BY <1>1, <1>2, <1>3, <2>1, <2>2, HeldOnceElements, HeldOnceElementsNext,
       ClientAssumption
  <2>6. NothingStranded'
    BY <1>2, <2>2 DEF NothingStranded
  <2> QED
    BY <2>3, <2>4, <2>5, <2>6 DEF IInv
<1>5. CASE FlushFails
  <2>1. /\ websocket = "closed" /\ queue' = Append(queue, hand) /\ hand' = None
        /\ loop' = "pausing" /\ sent' = sent
    BY <1>5 DEF FlushFails
  <2>2. /\ queue' \in Seq(Reports) /\ Distinct(queue')
        /\ Elements(queue') = Elements(queue) \cup {hand}
    BY <1>2, <1>3, <2>1, PutEffect
  <2>3. TypeOK'
    BY <1>1, <1>2, <2>1, <2>2 DEF TypeOK
  <2>4. PlaceInv' /\ NothingStranded'
    BY <1>1, <1>2, <2>1 DEF PlaceInv, NothingStranded
  <2>5. HeldOnce'
    BY <1>1, <1>2, <1>3, <2>1, <2>2, HeldOnceElements, HeldOnceElementsNext,
       ClientAssumption
  <2> QED
    BY <2>3, <2>4, <2>5 DEF IInv
<1> QED
  BY <1>4, <1>5

\* The steps of send_message keep the invariant.
LEMMA SendIInv ==
  ASSUME IInv, NEW m \in Reports, SendMessage(m) \/ SendReturns(m) \/ SendFails(m)
  PROVE  IInv'
<1> USE DEF server, control, view, reports
<1>1. TypeOK /\ PlaceInv /\ HeldOnce /\ NothingStranded
  BY DEF IInv
<1>2. /\ websocket # "None"
      /\ UNCHANGED <<websocket, inbox, truth, faults, loop, retry, syncing, listening,
                     event, applied, missed, hand>>
  BY <1>1 DEF SendMessage, SendReturns, SendFails, PlaceInv
<1>3. /\ queue \in Seq(Reports) /\ Distinct(queue)
      /\ m \in fresh \cup sending => m \notin Elements(queue)
  BY <1>1, HeldOnceElements DEF TypeOK
<1>4. PlaceInv'
  BY <1>1, <1>2 DEF PlaceInv
<1>5. CASE queue' = queue
  <2>1. \/ /\ m \in fresh
           /\ fresh' = fresh \ {m} /\ sending' = sending \cup {m} /\ sent' = sent
        \/ /\ m \in sending
           /\ fresh' = fresh /\ sending' = sending \ {m} /\ sent' = sent \cup {m}
    <3>1. Len(Append(queue, m)) # Len(queue)
      BY <1>3
    <3> QED
      BY <1>5, <3>1 DEF SendMessage, SendReturns, SendFails
  <2>2. TypeOK'
    BY <1>1, <1>2, <1>5, <2>1 DEF TypeOK
  <2>3. HeldOnce'
    BY <1>1, <1>2, <1>5, <2>1, HeldOnceElements, HeldOnceElementsNext
  <2>4. NothingStranded'
    BY <1>1, <1>2, <1>5 DEF NothingStranded
  <2> QED
    BY <1>4, <2>2, <2>3, <2>4 DEF IInv
<1>6. CASE queue' # queue
  <2>1. /\ websocket = "closed" /\ queue' = Append(queue, m) /\ sent' = sent
        /\ \/ fresh' = fresh \ {m} /\ sending' = sending /\ m \in fresh
           \/ fresh' = fresh /\ sending' = sending \ {m} /\ m \in sending
    BY <1>6 DEF SendMessage, SendReturns, SendFails
  <2>2. /\ queue' \in Seq(Reports) /\ Distinct(queue')
        /\ Elements(queue') = Elements(queue) \cup {m}
    BY <1>3, <2>1, PutEffect
  <2>3. TypeOK'
    BY <1>1, <1>2, <2>1, <2>2 DEF TypeOK
  <2>4. HeldOnce'
    BY <1>1, <1>2, <2>1, <2>2, HeldOnceElements, HeldOnceElementsNext
  <2>5. NothingStranded'
    BY <1>2, <2>1 DEF NothingStranded
  <2> QED
    BY <1>4, <2>3, <2>4, <2>5 DEF IInv
<1> QED
  BY <1>5, <1>6

-----------------------------------------------------------------------------
\* The invariant behind the theorems below: through every await, fault and retry of
\* the client the place of the coordinator, the queue and the reports agree.
THEOREM ClientInvariant == Spec => []IInv
<1>1. Init => IInv
  BY InitIInv
<1>2. IInv /\ [Next]_vars => IInv'
  <2> SUFFICES ASSUME IInv, [Next]_vars  PROVE IInv'
    OBVIOUS
  <2>1. CASE Next
    BY <2>1, EnvironmentIInv, LoopIInv, ConnectIInv, FlushIInv, SendIInv
    DEF Next, Client
  <2>2. CASE UNCHANGED vars
    BY <2>2 DEF vars, server, control, view, reports, IInv, TypeOK, PlaceInv, HeldOnce,
                Queued, NothingStranded
  <2> QED
    BY <2>1, <2>2
<1> QED
  BY <1>1, <1>2, PTL DEF Spec

\* The types are kept; in particular connect() never counts past max_retries.
THEOREM ClientTypesCorrect == Spec => []TypeOK
<1>1. IInv => TypeOK
  BY DEF IInv
<1> QED
  BY <1>1, ClientInvariant, PTL

\* For any number of reports, changes and faults no report is forgotten or sent twice
\* by send_message, its failures and the flushes of the queue.
THEOREM ReportsHeldOnce == Spec => []HeldOnce
<1>1. IInv => HeldOnce
  BY DEF IInv
<1> QED
  BY <1>1, ClientInvariant, PTL

\* For any number of reports, changes and faults no report stays in the queue of a
\* connected client.
THEOREM NoReportStranded == Spec => []NothingStranded
<1>1. IInv => NothingStranded
  BY DEF IInv
<1> QED
  BY <1>1, ClientInvariant, PTL

-----------------------------------------------------------------------------
(***************************************************************************)
(* The cluster's view.                                                     *)
(***************************************************************************)
InitUnderWay == \/ inbox # <<>> /\ inbox[1].type = "init"
                \/ event # None /\ event.type = "init"

\* The events under way are the changes up to `top' without a gap, an `init' event
\* before all others, and they go on where the view ends, or begin with an `init' event.
InOrder(top) ==
  /\ websocket = "open" => top = truth
  /\ \A i \in 1 .. Len(inbox) : /\ inbox[i].change = top - Len(inbox) + i
                                /\ inbox[i].type = "init" => i = 1 /\ event = None
  /\ event # None => event.change = top - Len(inbox)
  /\ ~missed => \/ InitUnderWay
                \/ applied = 1 .. top - Len(inbox) - (IF event = None THEN 0 ELSE 1)

ViewInv ==
  /\ event # None => loop = "handling"
  /\ ~missed => \E k \in 0 .. truth : applied = 1 .. k
  /\ \E top \in 0 .. truth : InOrder(top)

\* The types of what is under way.
LEMMA EventTypes ==
  ASSUME TypeOK
  PROVE  /\ Len(inbox) \in Nat /\ truth \in Nat
         /\ \A i \in 1 .. Len(inbox) : /\ inbox[i] \in Events /\ inbox[i].change \in Nat
                                       /\ inbox[i].type = "update" => inbox[i].change > 0
                                       /\ inbox[i].type \in {"init", "update"}
         /\ event # None => /\ event \in Events /\ event.change \in Nat
                            /\ event.type = "update" => event.change > 0
                            /\ event.type \in {"init", "update"}
<1>1. \A e \in Events : /\ e.change \in Nat /\ e.type \in {"init", "update"}
                        /\ e.type = "update" => e.change > 0
  BY ClientAssumption DEF Events
<1>2. Len(inbox) \in Nat /\ \A i \in 1 .. Len(inbox) : inbox[i] \in Events
  BY DEF TypeOK
<1> QED
  BY <1>1, <1>2, ClientAssumption DEF TypeOK

\* A new change is told to an open connection after what is under way.
LEMMA ChangeViewInv ==
  ASSUME TypeOK, ViewInv, Change
  PROVE  ViewInv'
<1>1. /\ truth' = truth + 1 /\ truth \in Nat
      /\ UNCHANGED <<websocket, loop, event, applied, missed>>
  BY ClientAssumption DEF Change, TypeOK, control, view
<1>2. PICK top \in 0 .. truth : InOrder(top)
  BY DEF ViewInv
<1>3. CASE websocket # "open"
  <2>1. inbox' = inbox
    BY <1>3 DEF Change
  <2>2. InOrder(top)'
    BY <1>1, <1>2, <1>3, <2>1 DEF InOrder, InitUnderWay
  <2>3. top \in 0 .. truth'
    BY <1>1
  <2> QED
    BY <1>1, <2>2, <2>3 DEF ViewInv
<1>4. CASE websocket = "open"
  <2>1. /\ Len(inbox) \in Nat /\ Len(inbox') = Len(inbox) + 1
        /\ \A i \in 1 .. Len(inbox) : inbox'[i] = inbox[i]
        /\ inbox'[Len(inbox) + 1].type = "update"
        /\ inbox'[Len(inbox) + 1].change = truth + 1
    BY <1>4 DEF Change, TypeOK
  <2>2. top = truth
    BY <1>2, <1>4 DEF InOrder
  <2>3. InitUnderWay => InitUnderWay'
    BY <1>1, <2>1 DEF InitUnderWay
  <2>4. /\ \A i \in 1 .. Len(inbox') : /\ inbox'[i].change = truth' - Len(inbox') + i
                                       /\ inbox'[i].type = "init" => i = 1 /\ event = None
    <3> SUFFICES ASSUME NEW i \in 1 .. Len(inbox')
                 PROVE  /\ inbox'[i].change = truth' - Len(inbox') + i
                        /\ inbox'[i].type = "init" => i = 1 /\ event = None
      OBVIOUS
    <3>1. CASE i = Len(inbox) + 1
      BY <1>1, <2>1, <3>1
    <3>2. CASE i # Len(inbox) + 1
      <4>1. i \in 1 .. Len(inbox)
        BY <2>1, <3>2
      <4> QED
        BY <1>1, <1>2, <2>1, <2>2, <4>1 DEF InOrder
    <3> QED
      BY <3>1, <3>2
  <2>5. truth' - Len(inbox') = truth - Len(inbox)
    BY <1>1, <2>1
  <2>6. InOrder(truth)'
    BY <1>1, <1>2, <2>2, <2>3, <2>4, <2>5 DEF InOrder
  <2>7. (\E last \in 0 .. truth : InOrder(last))'
    <3>1. truth' \in 0 .. truth'
      BY <1>1
    <3> QED
      BY <2>6, <3>1
  <2> QED
    BY <1>1, <2>7 DEF ViewInv
<1> QED
  BY <1>3, <1>4

\* A lost connection takes the last of what is under way with it.
LEMMA GoesDownViewInv ==
  ASSUME TypeOK, ViewInv, GoesDown, UNCHANGED <<loop, event, applied, missed, truth>>
  PROVE  ViewInv'
<1>1. PICK top \in 0 .. truth : InOrder(top)
  BY DEF ViewInv
<1>2. PICK n \in 0 .. Len(inbox) : inbox' = SubSeq(inbox, 1, n)
  BY DEF GoesDown
<1>3. /\ websocket' = "closed" /\ Len(inbox) \in Nat /\ truth \in Nat
      /\ Len(inbox') = n /\ \A i \in 1 .. n : inbox'[i] = inbox[i]
  BY <1>2, EventTypes DEF GoesDown, TypeOK
<1>4. CASE top - Len(inbox) + n >= 0 /\ (inbox # <<>> /\ inbox[1].type = "init" => n > 0)
  <2>1. PICK new \in 0 .. truth : new = top - Len(inbox) + n
    BY <1>3, <1>4
  <2>2. InitUnderWay => InitUnderWay'
    BY <1>3, <1>4 DEF InitUnderWay
  <2>3. /\ new - Len(inbox') = top - Len(inbox)
        /\ \A i \in 1 .. Len(inbox') : /\ i \in 1 .. Len(inbox)
                                       /\ new - Len(inbox') + i = top - Len(inbox) + i
    BY <1>3, <2>1
  <2>4. InOrder(new)'
    BY <1>1, <1>3, <2>2, <2>3 DEF InOrder
  <2> QED
    BY <2>4, <1>3 DEF ViewInv
<1>5. CASE n = 0 /\ inbox # <<>> /\ inbox[1].type = "init"
  <2>1. event = None /\ inbox' = <<>> /\ Len(inbox') = 0
    BY <1>1, <1>3, <1>5, EventTypes DEF InOrder, TypeOK
  <2>2. PICK k \in 0 .. truth : ~missed => applied = 1 .. k
    BY <1>3 DEF ViewInv
  <2>3. k - 0 - 0 = k
    BY <1>3
  <2>4. InOrder(k)'
    BY <1>3, <2>1, <2>2, <2>3 DEF InOrder
  <2> QED
    BY <2>2, <2>4 DEF ViewInv
<1>6. CASE top - Len(inbox) + n < 0
  <2>1. n = 0 /\ inbox # <<>> /\ inbox[1].type = "init"
    <3>1. Len(inbox) > 0
      BY <1>3, <1>6
    <3>2. inbox[1].change = top - Len(inbox) + 1 /\ inbox[1].change >= 0
      BY <1>1, <1>3, <3>1, EventTypes DEF InOrder
    <3>3. inbox[1].change = 0
      BY <1>3, <1>6, <3>2
    <3> QED
      BY <1>3, <1>6, <3>1, <3>2, <3>3, EventTypes
  <2> QED
    BY <1>5, <2>1
<1> QED
  BY <1>3, <1>4, <1>5, <1>6

\* A new connection begins with what the orchestrator has changed so far.
LEMMA ConnectOkViewInv ==
  ASSUME TypeOK, PlaceInv, ViewInv, ConnectOk
  PROVE  ViewInv'
<1>1. /\ event = None /\ event' = None /\ truth \in Nat
      /\ inbox' = <<[type |-> "init", change |-> truth]>>
      /\ UNCHANGED <<truth, applied, missed>>
  BY ClientAssumption DEF ConnectOk, ViewInv, TypeOK, view
<1>2. /\ Len(inbox') = 1 /\ inbox'[1].type = "init" /\ inbox'[1].change = truth
      /\ inbox' # <<>>
  BY <1>1
<1>3. InOrder(truth)'
  BY <1>1, <1>2 DEF InOrder, InitUnderWay
<1>4. (\E top \in 0 .. truth : InOrder(top))'
  <2>1. truth' \in 0 .. truth'
    BY <1>1
  <2> QED
    BY <1>3, <2>1
<1> QED
  BY <1>1, <1>4 DEF ViewInv

\* Receiving takes the first of what is under way.
LEMMA ReceiveViewInv ==
  ASSUME TypeOK, ViewInv, Receive
  PROVE  ViewInv'
<1>1. PICK top \in 0 .. truth : InOrder(top)
  BY DEF ViewInv
<1>2. /\ event = None /\ inbox # <<>> /\ loop' = "handling" /\ event' = inbox[1]
      /\ UNCHANGED <<websocket, truth, applied, missed>>
      /\ Len(inbox) \in Nat \ {0} /\ Len(inbox') = Len(inbox) - 1
      /\ \A i \in 1 .. Len(inbox') : inbox'[i] = inbox[i + 1] /\ i + 1 \in 2 .. Len(inbox)
  BY DEF Receive, ViewInv, TypeOK
<1>3. event' # None /\ truth \in Nat
  BY <1>2, ClientAssumption, EventTypes
<1>4. /\ \A i \in 1 .. Len(inbox') : /\ inbox'[i].change = top - Len(inbox') + i
                                     /\ inbox'[i].type # "init"
      /\ event'.change = top - Len(inbox')
      /\ top - Len(inbox') - 1 = top - Len(inbox) - 0
  <2>1. /\ \A j \in 1 .. Len(inbox) : /\ inbox[j].change = top - Len(inbox) + j
                                      /\ inbox[j].type = "init" => j = 1
        /\ top \in Nat
    BY <1>1, <1>3 DEF InOrder
  <2>2. ASSUME NEW i \in 1 .. Len(inbox')
        PROVE  inbox'[i].change = top - Len(inbox') + i /\ inbox'[i].type # "init"
    <3>1. inbox'[i] = inbox[i + 1] /\ i + 1 \in 1 .. Len(inbox) /\ i + 1 # 1
      BY <1>2
    <3>2. top - Len(inbox) + (i + 1) = top - Len(inbox') + i
      BY <1>2, <2>1
    <3> QED
      BY <2>1, <3>1, <3>2
  <2>3. event'.change = top - Len(inbox')
    <3>1. 1 \in 1 .. Len(inbox) /\ top - Len(inbox) + 1 = top - Len(inbox')
      BY <1>2, <2>1
    <3> QED
      BY <1>2, <2>1, <3>1
  <2> QED
    BY <1>2, <2>1, <2>2, <2>3
<1>5. InitUnderWay => InitUnderWay'
  BY <1>2, <1>3 DEF InitUnderWay
<1>6. InOrder(top)'
  BY <1>1, <1>2, <1>3, <1>4, <1>5 DEF InOrder
<1> QED
  BY <1>2, <1>6 DEF ViewInv

\* A handler's event goes on where the view ended, or says all; one that fails is missed.
LEMMA HandledViewInv ==
  ASSUME TypeOK, PlaceInv, ViewInv, Handled \/ HandlerRaises
  PROVE  ViewInv'
<1>1. PICK top \in 0 .. truth : InOrder(top)
  BY DEF ViewInv
<1>2. /\ event # None /\ event' = None
      /\ UNCHANGED <<websocket, truth, inbox>>
      /\ Len(inbox) \in Nat /\ truth \in Nat
      /\ event.change \in Nat /\ event.type \in {"init", "update"}
      /\ event.type = "update" => event.change > 0
      /\ event.change = top - Len(inbox)
      /\ \A i \in 1 .. Len(inbox) : /\ inbox[i].change = top - Len(inbox) + i
                                    /\ inbox[i].type # "init"
  BY <1>1, EventTypes DEF Handled, HandlerRaises, PlaceInv, InOrder, server
<1>3. ~missed' => applied' = 1 .. top - Len(inbox)
  <2>1. CASE HandlerRaises
    BY <2>1 DEF HandlerRaises
  <2>2. CASE Handled /\ event.type = "init"
    BY <1>2, <2>2 DEF Handled
  <2>3. CASE Handled /\ event.type = "update"
    <3>1. ~InitUnderWay
      BY <1>2, <2>3 DEF InitUnderWay, TypeOK
    <3>2. missed' = missed /\ applied' = applied \cup {event.change}
      BY <2>3 DEF Handled, TypeOK
    <3>3. ~missed => applied = 1 .. event.change - 1
      BY <1>1, <1>2, <3>1 DEF InOrder
    <3> QED
      BY <1>2, <2>3, <3>2, <3>3
  <2> QED
    BY <1>2, <2>1, <2>2, <2>3
<1>4. top - Len(inbox) \in 0 .. truth /\ top - Len(inbox) - 0 = top - Len(inbox)
  BY <1>2
<1>5. InOrder(top)'
  BY <1>1, <1>2, <1>3, <1>4 DEF InOrder
<1> QED
  BY <1>2, <1>3, <1>4, <1>5 DEF ViewInv

\* Nothing else concerns the view.
LEMMA OtherViewInv ==
  ASSUME PlaceInv, ViewInv,
         UNCHANGED <<inbox, event, applied, missed, truth>>,
         websocket' = "open" => websocket = "open", loop = "handling" => loop' = loop
  PROVE  ViewInv'
<1>1. PICK top \in 0 .. truth : InOrder(top)
  BY DEF ViewInv
<1>2. InOrder(top)'
  BY <1>1 DEF InOrder, InitUnderWay
<1> QED
  BY <1>2 DEF ViewInv

\* Through all faults, retries and failing handlers, for any number of changes, the
\* cluster's view has no gap but those of failed handlers.
THEOREM NoGaps == Spec => []ViewHasNoGaps
<1>1. Init => ViewInv
  <2> SUFFICES ASSUME Init  PROVE ViewInv
    OBVIOUS
  <2>1. /\ inbox = <<>> /\ event = None /\ applied = 1 .. 0 /\ truth = 0 /\ Len(inbox) = 0
        /\ websocket = "None" /\ 0 \in 0 .. truth
    BY DEF Init
  <2>2. InOrder(0)
    BY <2>1 DEF InOrder
  <2> QED
    BY <2>1, <2>2 DEF ViewInv
<1>2. IInv /\ ViewInv /\ [Next]_vars => ViewInv'
  <2> SUFFICES ASSUME TypeOK, PlaceInv, ViewInv, [Next]_vars  PROVE ViewInv'
    BY DEF IInv
  <2>1. CASE Change
    BY <2>1, ChangeViewInv
  <2>2. CASE Lose
    BY <2>2, GoesDownViewInv DEF Lose, control, view
  <2>3. CASE Disconnect
    BY <2>3, GoesDownViewInv, OtherViewInv DEF Disconnect, view
  <2>4. CASE ConnectOk
    BY <2>4, ConnectOkViewInv
  <2>5. CASE Receive \/ Handled \/ HandlerRaises
    BY <2>5, ReceiveViewInv, HandledViewInv
  <2>6. CASE ConnectFails \/ FlushSent \/ FlushFails \/ FindClosed \/ PauseOver \/ Listen
    BY <2>6, OtherViewInv
    DEF ConnectFails, FlushSent, FlushFails, FindClosed, PauseOver, Listen, server, view
  <2>7. CASE \E m \in Reports : SendMessage(m) \/ SendReturns(m) \/ SendFails(m)
    BY <2>7, OtherViewInv DEF SendMessage, SendReturns, SendFails, server, control, view
  <2>8. CASE UNCHANGED vars
    BY <2>8, OtherViewInv DEF vars, server, control, view
  <2> QED
    BY <2>1, <2>2, <2>3, <2>4, <2>5, <2>6, <2>7, <2>8 DEF Next, Client
<1>3. IInv /\ ViewInv => ViewHasNoGaps
  <2> SUFFICES ASSUME TypeOK, ViewInv, ~missed
               PROVE  websocket = "open" /\ inbox = <<>> /\ event = None =>
                        applied = 1 .. truth
    BY DEF IInv, ViewInv, ViewHasNoGaps
  <2>1. PICK top \in 0 .. truth : InOrder(top)
    BY DEF ViewInv
  <2>2. Len(<<>>) = 0 /\ truth \in Nat /\ truth - 0 - 0 = truth
    BY EventTypes
  <2> QED
    BY <2>1, <2>2 DEF InOrder, InitUnderWay
<1> QED
  BY <1>1, <1>2, <1>3, ClientInvariant, PTL DEF Spec
=============================================================================
