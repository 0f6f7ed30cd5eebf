--------------------------- MODULE RunnerContract ---------------------------
(***************************************************************************)
(* What ModelCluster relies on of one ModelRunner, and no more: init()     *)
(* begins once, may dial again and again until it is closed, and ends; it  *)
(* succeeds only on a channel that is not shut; close() may come at any    *)
(* time after init() has begun.  ModelRunner implements it step by step,   *)
(* and so does each runner of ModelCluster.                                *)
(***************************************************************************)
VARIABLES probes,      \* a TLS probe precedes each dial (never changes)
          phase,       \* "new", "probe", "init" or "left"
          channel,     \* "none", "open", "closing" or "shut"
          closed,      \* close() was called
          initialized  \* init() returned success

vars == <<probes, phase, channel, closed, initialized>>

Init ==
  /\ probes \in BOOLEAN
  /\ phase = "new"
  /\ channel = "none"
  /\ closed = FALSE
  /\ initialized = FALSE

Begin ==
  /\ phase = "new"
  /\ \/ probes /\ phase' = "probe" /\ UNCHANGED channel
     \/ ~probes /\ phase' = "init" /\ channel' = "open"
  /\ UNCHANGED <<probes, closed, initialized>>

\* The probe has answered: the dial follows even if close() came meanwhile.
Dial ==
  /\ phase = "probe"
  /\ phase' = "init"
  /\ channel' = "open"
  /\ UNCHANGED <<probes, closed, initialized>>

\* A new attempt, only of a runner that is not closed.
Retry ==
  /\ probes /\ phase = "init" /\ ~closed
  /\ phase' = "probe"
  /\ UNCHANGED <<probes, channel, closed, initialized>>

Succeed ==
  /\ phase = "init" /\ channel \in {"open", "closing"}
  /\ phase' = "left"
  /\ initialized' = TRUE
  /\ UNCHANGED <<probes, channel, closed>>

\* init() returns an error or raises.
Fail ==
  /\ phase \in {"probe", "init"}
  /\ phase' = "left"
  /\ UNCHANGED <<probes, channel, closed, initialized>>

Close ==
  /\ phase # "new"
  /\ closed' = TRUE
  /\ channel' = IF channel = "open" THEN "closing" ELSE channel
  /\ UNCHANGED <<probes, phase, initialized>>

Shut ==
  /\ channel = "closing"
  /\ channel' = "shut"
  /\ UNCHANGED <<probes, phase, closed, initialized>>

Next == Begin \/ Dial \/ Retry \/ Succeed \/ Fail \/ Close \/ Shut

Spec == Init /\ [][Next]_vars

\* init() ends.
Returns == phase \in {"probe", "init"} ~> phase = "left"
=============================================================================
